---- MODULE Spec2Model ----
(***************************************************************************)
(* Row-count metrics collector: run lifecycle and snapshot reconciliation. *)
(* The module models the variants of main() found in the repository:       *)
(*   "Works" : src/WORK/Works.py  (one transaction for the whole run)      *)
(*   "two"   : src/WORK/two.py    (header committed in its own transaction)*)
(*   "one"   : src/WORK/one.py    (DB-API connection wrapped by db_conn)   *)
(*   "http"  : src/NF_DataEngineering/simple_db_connection.py              *)
(* The store is PostgreSQL under READ COMMITTED: a transaction buffers its *)
(* writes, a write to a row another open transaction has written waits for *)
(* that transaction to end, and a commit publishes the buffer at once.     *)
(***************************************************************************)
EXTENDS Integers, Sequences, FiniteSets, TLC

\* ------------------------------------------------------------------ bounds
\* a COUNT(*) answers 0..MaxCount
MaxCount == 1
\* calendar days the wall clock passes through
MaxDay == 2

\* the invocations of main(): two, which may overlap in any way or follow one
\* another; the one that starts first is numbered 1
Procs == {1, 2}

\* None / SQL NULL in an integer column or variable (run ids and dates are >= 1)
NULL == -1
\* no row under the key
NoRow == [absent |-> TRUE]
\* None in place of a message, a request or a result
NoMsg == <<>>
NoBody == [absent |-> TRUE]
NoEvent == [kind |-> "none"]
NoResult == [status |-> "none"]
Empty == <<>>

Variants == {"Works", "two", "one", "http"}
WorkVariants == {"Works", "two", "one"}

\* ----------------------------------------------------------------- strings
\* A string is a sequence of characters; names are written with one token
\* per run of letters and "." as the separator character.
S(x) == <<x>>
Fq(s, t) == <<s, ".", t>>

Contains(str, ch) == \E i \in 1..Len(str) : str[i] = ch

FirstIndex(str, ch) == CHOOSE i \in 1..Len(str) : str[i] = ch /\ \A j \in 1..(i-1) : str[j] # ch

\* fq.split(".", 1) of a string that holds the separator
Split1(fq) == <<SubSeq(fq, 1, FirstIndex(fq, ".") - 1), SubSeq(fq, FirstIndex(fq, ".") + 1, Len(fq))>>

Range(seq) == {seq[i] : i \in 1..Len(seq)}

\* ------------------------------------------------------------------ config
SYSTEM_SCHEMAS == {S("pg_catalog"), S("information_schema"), S("pg_toast")}

\* information_schema.tables of the measured database, in catalog order
Catalog == <<
    [table_schema |-> S("app"),        table_name |-> S("orders"),    table_type |-> "BASE TABLE"],
    [table_schema |-> S("pg_catalog"), table_name |-> S("pg_class"),  table_type |-> "BASE TABLE"],
    [table_schema |-> S("app"),        table_name |-> S("customers"), table_type |-> "BASE TABLE"],
    [table_schema |-> S("app"),        table_name |-> S("v_orders"),  table_type |-> "VIEW"],
    [table_schema |-> S("log"),        table_name |-> S("audit"),     table_type |-> "BASE TABLE"],
    [table_schema |-> S("tmp"),        table_name |-> S("scratch"),   table_type |-> "BASE TABLE"],
    [table_schema |-> S("information_schema"), table_name |-> S("sql_features"),
     table_type |-> "BASE TABLE"],
    [table_schema |-> S("pg_toast"),   table_name |-> S("pg_toast_2619"), table_type |-> "BASE TABLE"] >>

\* request bodies the callers send (after _parse_event_body)
Bodies == {
    [exclude |-> <<Fq("log", "audit")>>,       skipSchemas |-> <<S("tmp")>>],
    [exclude |-> <<S("orders")>>,              skipSchemas |-> <<>>],
    [exclude |-> <<>>,                         skipSchemas |-> <<S("app"), S("tmp"), S("log")>>] }

\* request bodies of the HTTP variant (request.get_json)
HttpBodies == {
    [mode |-> "all",   tables |-> <<>>, exact |-> TRUE,  excludeSchemas |-> {S("tmp"), S("log")}],
    [mode |-> "daily", tables |-> <<>>, exact |-> FALSE, excludeSchemas |-> {}],
    [mode |-> "list",  tables |-> <<>>, exact |-> TRUE,  excludeSchemas |-> {}],
    [mode |-> "list",  tables |-> <<Fq("pg_catalog", "pg_class"), Fq("tmp", "scratch")>>,
     exact |-> TRUE,  excludeSchemas |-> {S("tmp")}],
    [mode |-> "list",  tables |-> <<Fq("app", "orders"), S("sales")>>,
     exact |-> FALSE, excludeSchemas |-> {}] }

\* ops.rowcount_targets, in table order
RowcountTargets == <<
    [schema_name |-> S("app"), table_name |-> S("orders"),    enabled |-> TRUE],
    [schema_name |-> S("tmp"), table_name |-> S("scratch"),   enabled |-> TRUE],
    [schema_name |-> S("app"), table_name |-> S("customers"), enabled |-> FALSE] >>

Counts == 0..MaxCount
Days == 1..MaxDay

\* payload found in a daily row written before this program (run_id NULL)
LegacyPayload == (S("old") :> (S("t") :> 0))

\* ------------------------------------------------------- request validation
\* _validate_request: the first entry of "exclude" without a "." raises
BadEntries(body) == {i \in 1..Len(body.exclude) : ~Contains(body.exclude[i], ".")}

_validate_request(body) ==
    IF BadEntries(body) # {}
    THEN [ok |-> FALSE,
          message |-> <<"exclude items must be 'schema.table': ">>
                      \o body.exclude[CHOOSE i \in BadEntries(body) : \A j \in BadEntries(body) : i <= j]]
    ELSE [ok |-> TRUE, exclude_tables |-> body.exclude, skip_schemas |-> body.skipSchemas]

exclude_pairs(exclude_tables) == {Split1(fq) : fq \in Range(exclude_tables)}

\* ------------------------------------------------------------ target lookup
\* variation: the query has lost its schema condition
IsBaseTable(row) ==
    row.table_type = "BASE TABLE"

\* WHERE table_type='BASE TABLE' AND table_schema NOT IN ('pg_catalog', ..)
IsUserBaseTable(row) ==
    /\ row.table_type = "BASE TABLE"
    /\ row.table_schema \notin {S("pg_catalog"), S("information_schema"), S("pg_toast")}

Pairs(rows) == [i \in 1..Len(rows) |-> <<rows[i].table_schema, rows[i].table_name>>]

SchemaNotIn(excl, pair) == pair[1] \notin excl

_list_all_tables(exclude_schemas) ==
    LET fetched == Pairs(SelectSeq(Catalog, IsUserBaseTable))
        Keep(pair) == SchemaNotIn(exclude_schemas, pair)
    IN  SelectSeq(fetched, Keep)

\* variation: skipSchemas is not passed on to the catalog query
TargetsNoSkip(skip_schemas, exclude_tables) ==
    SelectSeq(_list_all_tables(SYSTEM_SCHEMAS),
              LAMBDA pair : pair \notin exclude_pairs(exclude_tables))

\* targets = [(s, t) for (s, t) in all_targets if (s, t) not in exclude_pairs]
Targets(skip_schemas, exclude_tables) ==
    LET all_targets == _list_all_tables(SYSTEM_SCHEMAS \cup Range(skip_schemas))
        Keep(pair) == pair \notin exclude_pairs(exclude_tables)
    IN  SelectSeq(all_targets, Keep)

\* variation: payload[schema] = {table: cnt}
PayloadReplace(payload, schema, table, cnt) ==
    (schema :> (table :> cnt)) @@ payload

\* payload.setdefault(schema, {})[table] = cnt
PayloadPut(payload, schema, table, cnt) ==
    IF schema \in DOMAIN payload
    THEN [payload EXCEPT ![schema] = (table :> cnt) @@ payload[schema]]
    ELSE (schema :> (table :> cnt)) @@ payload

\* sum(len(v) for v in payload.values())
RECURSIVE SumLens(_, _)
SumLens(payload, keys) ==
    IF keys = {} THEN 0
    ELSE LET k == CHOOSE x \in keys : TRUE
         IN  Cardinality(DOMAIN payload[k]) + SumLens(payload, keys \ {k})

tablesProcessed(payload) == SumLens(payload, DOMAIN payload)

\* --------------------------------------------------------------- the store
\* str(e)[:4000]
ErrMax == 4000

Truncate(msg) == SubSeq(msg, 1, IF Len(msg) < ErrMax THEN Len(msg) ELSE ErrMax)

\* a SQL comparison is true only when both sides are non-null
SqlGt(a, b) == a # NULL /\ b # NULL /\ a > b

Greatest(a, b) == IF a > b THEN a ELSE b

\* columns the INSERTs leave to the table's DEFAULT (collected_at, snapshot_date)
ColumnDefaultNow(now) == now

ColumnDefaultDate(day) == day

\* variation: the :status bind is dropped and every header is written FAILED
_insert_run_header_failed(status, skip_schemas, exclude_tables, now, day) ==
    [status |-> "FAILED", error_message |-> NoMsg,
     snapshot_date |-> ColumnDefaultDate(day), collected_at |-> ColumnDefaultNow(now),
     skip_schemas |-> skip_schemas, exclude_tables |-> exclude_tables]

\* variation: the :status bind is dropped and every header is written RUNNING
_insert_run_header_running(status, skip_schemas, exclude_tables, now, day) ==
    [status |-> "RUNNING", error_message |-> NoMsg,
     snapshot_date |-> ColumnDefaultDate(day), collected_at |-> ColumnDefaultNow(now),
     skip_schemas |-> skip_schemas, exclude_tables |-> exclude_tables]

\* INSERT INTO table_metrics_runs (status, skip_schemas, exclude_tables)
_insert_run_header(status, skip_schemas, exclude_tables, now, day) ==
    [status |-> status, error_message |-> NoMsg,
     snapshot_date |-> ColumnDefaultDate(day), collected_at |-> ColumnDefaultNow(now),
     skip_schemas |-> skip_schemas, exclude_tables |-> exclude_tables]

\* variation: the WHERE clause matches no row
_update_run_status_none(visible, run_id, status, error_message) ==
    [r \in {x \in DOMAIN visible : x = run_id /\ x # run_id} |-> visible[r]]

\* variation: the UPDATE sets the status but leaves error_message alone
_update_run_status_nomsg(visible, run_id, status, error_message) ==
    [r \in {x \in DOMAIN visible : x = run_id} |-> [visible[r] EXCEPT !.status = status]]

\* variation: the UPDATE sets error_message but leaves the status alone
_update_run_status_nostatus(visible, run_id, status, error_message) ==
    [r \in {x \in DOMAIN visible : x = run_id} |->
        [visible[r] EXCEPT !.error_message = error_message]]

\* variation: the UPDATE has lost its WHERE clause
_update_run_status_all(visible, run_id, status, error_message) ==
    [r \in DOMAIN visible |->
        [visible[r] EXCEPT !.status = status, !.error_message = error_message]]

\* UPDATE table_metrics_runs SET status, error_message WHERE run_id = :run_id
\* (the rows the statement rewrites, out of the rows visible to it)
_update_run_status(visible, run_id, status, error_message) ==
    [r \in {x \in DOMAIN visible : x = run_id} |->
        [visible[r] EXCEPT !.status = status, !.error_message = error_message]]

\* variation: every row is inserted under run id 1
_insert_measurements_run1(rows) ==
    {[run_id |-> 1, schema_name |-> rows[i][2],
      table_name |-> rows[i][3], row_count |-> rows[i][4]] : i \in 1..Len(rows)}

\* variation: only the first measurement is inserted
_insert_measurements_first(rows) ==
    {[run_id |-> rows[i][1], schema_name |-> rows[i][2],
      table_name |-> rows[i][3], row_count |-> rows[i][4]] : i \in {j \in 1..Len(rows) : j = 1}}

\* rows_to_insert of _insert_measurements
_insert_measurements(rows) ==
    {[run_id |-> rows[i][1], schema_name |-> rows[i][2],
      table_name |-> rows[i][3], row_count |-> rows[i][4]] : i \in 1..Len(rows)}

\* variation: the statement stores an empty payload
_write_run_snapshot_empty(old, payload_nested, now) ==
    [payload |-> Empty, collected_at |-> ColumnDefaultNow(now)]

\* variation: ON CONFLICT (run_id) DO NOTHING
_write_run_snapshot_nothing(old, payload_nested, now) ==
    IF old = NoRow
    THEN [payload |-> payload_nested, collected_at |-> ColumnDefaultNow(now)]
    ELSE old

\* INSERT .. ON CONFLICT (run_id) DO UPDATE SET payload = EXCLUDED.payload, collected_at = now()
_write_run_snapshot(old, payload_nested, now) ==
    IF old = NoRow
    THEN [payload |-> payload_nested, collected_at |-> ColumnDefaultNow(now)]
    ELSE [payload |-> payload_nested, collected_at |-> now]

\* variation: the guard reads EXCLUDED.run_id >= run_id
_write_daily_snapshot_ge(old, run_id, payload_nested, now) ==
    IF old = NoRow
    THEN [run_id |-> run_id, payload |-> payload_nested, collected_at |-> ColumnDefaultNow(now)]
    ELSE IF old.run_id = NULL \/ run_id >= old.run_id
         THEN [run_id |-> run_id, payload |-> payload_nested, collected_at |-> now]
         ELSE old

\* variation: a refused write still sets collected_at = now()
_write_daily_snapshot_touch(old, run_id, payload_nested, now) ==
    IF old = NoRow
    THEN [run_id |-> run_id, payload |-> payload_nested, collected_at |-> ColumnDefaultNow(now)]
    ELSE IF old.run_id = NULL \/ SqlGt(run_id, old.run_id)
         THEN [run_id |-> run_id, payload |-> payload_nested, collected_at |-> now]
         ELSE [old EXCEPT !.collected_at = now]

\* one.py / two.py: SET from EXCLUDED under WHERE run_id IS NULL OR EXCLUDED.run_id > run_id
_write_daily_snapshot_two(old, run_id, payload_nested, now) ==
    IF old = NoRow
    THEN [run_id |-> run_id, payload |-> payload_nested, collected_at |-> ColumnDefaultNow(now)]
    ELSE IF old.run_id = NULL \/ SqlGt(run_id, old.run_id)
         THEN [run_id |-> run_id, payload |-> payload_nested, collected_at |-> now]
         ELSE old

\* variation: LEAST in the place of GREATEST
_write_daily_snapshot_least(old, run_id, payload_nested, now) ==
    IF old = NoRow
    THEN [run_id |-> run_id, payload |-> payload_nested, collected_at |-> ColumnDefaultNow(now)]
    ELSE IF old.run_id = NULL \/ SqlGt(run_id, old.run_id)
         THEN [run_id |-> IF old.run_id = NULL THEN run_id
                          ELSE IF old.run_id < run_id THEN old.run_id ELSE run_id,
               payload |-> payload_nested,
               collected_at |-> now]
         ELSE old

\* variation: no WHERE guard, run_id = GREATEST(..) and payload = EXCLUDED.payload
_write_daily_snapshot_split(old, run_id, payload_nested, now) ==
    IF old = NoRow
    THEN [run_id |-> run_id, payload |-> payload_nested, collected_at |-> ColumnDefaultNow(now)]
    ELSE [run_id |-> IF old.run_id = NULL THEN run_id ELSE Greatest(old.run_id, run_id),
          payload |-> payload_nested,
          collected_at |-> now]

\* Works.py: SET built from CASE / GREATEST under the same WHERE guard
_write_daily_snapshot_Works(old, run_id, payload_nested, now) ==
    IF old = NoRow
    THEN [run_id |-> run_id, payload |-> payload_nested, collected_at |-> ColumnDefaultNow(now)]
    ELSE IF old.run_id = NULL \/ SqlGt(run_id, old.run_id)
         THEN [run_id |-> IF old.run_id = NULL THEN run_id ELSE Greatest(old.run_id, run_id),
               payload |-> IF old.run_id = NULL \/ SqlGt(run_id, old.run_id)
                           THEN payload_nested ELSE old.payload,
               collected_at |-> now]
         ELSE old

_write_daily_snapshot(v, old, run_id, payload_nested, now) ==
    IF v = "Works"
    THEN _write_daily_snapshot_Works(old, run_id, payload_nested, now)
    ELSE _write_daily_snapshot_two(old, run_id, payload_nested, now)

Lookup(table, key) == IF key \in DOMAIN table THEN table[key] ELSE NoRow

\* ------------------------------------------------------------------- state
VARIABLES
    calls,          \* the calls db_conn() has made on its connection, in order
    event,          \* per invocation: cloud_event.data as delivered, until it is parsed
    variant,        \* which main() is deployed
    today,          \* the latest calendar day anyone has read off the wall clock
    nextId,         \* the run_id sequence
    runs,           \* table_metrics_runs, committed:  run_id -> row
    meas,           \* table_metrics_measurements, committed: set of rows
    run_snap,       \* table_metrics_run_snapshot, committed: run_id -> row
    day_snap,       \* table_metrics_daily_snapshot (google_iternary: nms_daily_reporting),
                    \* committed: snapshot_date -> row
    snap,           \* ops.rowcount_snapshot, committed: (schema, table, snapshot_date) -> row
    tx,             \* per invocation: the open transaction's uncommitted writes
    pc,             \* per invocation: position in main()
    body,           \* per invocation: the parsed request
    business_date,  \* per invocation
    run_id,         \* per invocation: None (NULL) until the header insert returns
    targets,        \* per invocation
    measurements,   \* per invocation: list of (run_id, schema, table, cnt)
    payload,        \* per invocation: schema -> table -> cnt
    err,            \* per invocation: str(e) of the exception caught
    result,         \* per invocation: what main() returned
    done_runs,      \* history: (run_id, business_date, payload) of the runs whose work
                    \* was committed, in commit order
    finalized,      \* history, per invocation: what became of the handler's transaction
    finalize_calls  \* history, per invocation: status UPDATEs it has executed since it
                    \* was entered (0 again once main() has returned)

db == <<runs, meas, run_snap, day_snap, snap>>
locals == <<body, business_date, run_id, targets, measurements, payload, err, result>>
vars == <<calls, event, variant, today, nextId, runs, meas, run_snap, day_snap, snap, tx,
          pc, body, business_date, run_id, targets, measurements, payload, err, result,
          done_runs, finalized, finalize_calls>>

NoTx == [open |-> FALSE, runs |-> Empty, meas |-> {}, rsnap |-> Empty, dsnap |-> Empty,
         snap |-> Empty]

\* engine.begin() / a fresh DB-API connection
Begin(p) == IF tx[p].open THEN tx[p] ELSE [NoTx EXCEPT !.open = TRUE]

\* now() is the start time of the transaction: a stamp that differs from one
\* transaction to the next.  Every transaction that writes a timestamp serves
\* one run and no run has two of them, so the stamp is written as the run's id;
\* rows that were there before the program have stamp 0.
Now(r) == r

\* what a statement of p's transaction sees: its own writes over the committed rows
VisRuns(p) == tx[p].runs @@ runs
VisRunSnap(p) == tx[p].rsnap @@ run_snap
VisDaySnap(p) == tx[p].dsnap @@ day_snap
VisSnap(p) == tx[p].snap @@ snap

\* variation: a store without row locks
NoRowLock(p, d) == FALSE

\* the daily row of date d is written (and so locked) by another open transaction
DayLocked(p, d) == \E q \in Procs \ {p} : tx[q].open /\ d \in DOMAIN tx[q].dsnap

SnapLocked(p, key) == \E q \in Procs \ {p} : tx[q].open /\ key \in DOMAIN tx[q].snap

\* str(e) of an exception raised by the driver or the server
DbError == <<"db error">>

\* nothing has run yet: empty ledger, no invocation started
InitIdle ==
    /\ calls = <<>>
    /\ event = [p \in Procs |-> NoEvent]
    /\ today = 1
    /\ nextId = 1
    /\ runs = Empty
    /\ meas = {}
    /\ run_snap = Empty
    /\ snap = Empty
    /\ tx = [p \in Procs |-> NoTx]
    /\ pc = [p \in Procs |-> "idle"]
    /\ body = [p \in Procs |-> NoBody]
    /\ business_date = [p \in Procs |-> NULL]
    /\ run_id = [p \in Procs |-> NULL]
    /\ targets = [p \in Procs |-> <<>>]
    /\ measurements = [p \in Procs |-> <<>>]
    /\ payload = [p \in Procs |-> Empty]
    /\ err = [p \in Procs |-> NoMsg]
    /\ result = [p \in Procs |-> NoResult]
    /\ done_runs = <<>>
    /\ finalized = [p \in Procs |-> "none"]
    /\ finalize_calls = [p \in Procs |-> 0]

Init ==
    /\ variant \in Variants
    /\ day_snap \in {Empty, (1 :> [run_id |-> NULL, payload |-> LegacyPayload, collected_at |-> 0])}
    /\ variant = "http" => day_snap = Empty
    /\ InitIdle

\* an exception leaves the with-block: the transaction is rolled back and the
\* except clause of main() is entered with the exception e
Raise(p, msg) ==
    /\ tx' = [tx EXCEPT ![p] = NoTx]
    /\ err' = [err EXCEPT ![p] = msg]
    /\ pc' = [pc EXCEPT ![p] = "except"]

\* COMMIT: the transaction's writes become the committed rows
Committed(p) ==
    /\ runs' = tx[p].runs @@ runs
    /\ meas' = meas \cup tx[p].meas
    /\ run_snap' = tx[p].rsnap @@ run_snap
    /\ day_snap' = tx[p].dsnap @@ day_snap
    /\ snap' = tx[p].snap @@ snap

\* ------------------------------------------------------ main(): WORK variants
\* body = _parse_event_body(..); business_date = now(SNAPSHOT_TZ).date();
\* run_id = None; _validate_request(body)
main_start(p) ==
    /\ variant \in WorkVariants
    /\ pc[p] = "idle"
    /\ \A q \in Procs : q < p => pc[q] # "idle"
    /\ \E b \in Bodies :
        /\ body' = [body EXCEPT ![p] = b]
        /\ IF _validate_request(b).ok
           THEN /\ pc' = [pc EXCEPT ![p] = "header"]
                /\ err' = [err EXCEPT ![p] = NoMsg]
           ELSE /\ pc' = [pc EXCEPT ![p] = "except"]
                /\ err' = [err EXCEPT ![p] = _validate_request(b).message]
    /\ \E d \in today..MaxDay :
        /\ today' = d
        /\ business_date' = [business_date EXCEPT ![p] = d]
    /\ run_id' = [run_id EXCEPT ![p] = NULL]
    /\ targets' = [targets EXCEPT ![p] = <<>>]
    /\ measurements' = [measurements EXCEPT ![p] = <<>>]
    /\ payload' = [payload EXCEPT ![p] = Empty]
    /\ result' = [result EXCEPT ![p] = NoResult]
    /\ UNCHANGED <<calls, event, variant, nextId, db, tx, done_runs, finalized, finalize_calls>>

\* with engine.begin() as conn: run_id = _insert_run_header(conn, "RUNNING", ..)
main_insert_run_header(p) ==
    /\ variant \in WorkVariants
    /\ pc[p] = "header"
    /\ \/ /\ \E d \in today..MaxDay :
                /\ today' = d
                /\ tx' = [tx EXCEPT ![p] = [Begin(p) EXCEPT !.runs =
                        (nextId :> _insert_run_header("RUNNING", body[p].skipSchemas,
                                                      body[p].exclude, Now(nextId), d))
                        @@ @]]
          /\ run_id' = [run_id EXCEPT ![p] = nextId]
          /\ nextId' = nextId + 1
          /\ pc' = [pc EXCEPT ![p] = IF variant = "two" THEN "commit_header" ELSE "list"]
          /\ UNCHANGED err
       \/ /\ Raise(p, DbError)
          /\ UNCHANGED <<today, run_id, nextId>>
    /\ UNCHANGED <<calls, event, variant, db, body, business_date, targets,
                   measurements, payload, result, done_runs, finalized, finalize_calls>>

\* two.py: the first with-block ends, the header is committed on its own
main_commit_header(p) ==
    /\ variant = "two"
    /\ pc[p] = "commit_header"
    /\ \/ /\ Committed(p)
          /\ tx' = [tx EXCEPT ![p] = NoTx]
          /\ pc' = [pc EXCEPT ![p] = "list"]
          /\ UNCHANGED err
       \/ /\ Raise(p, DbError)
          /\ UNCHANGED db
    /\ UNCHANGED <<calls, event, variant, today, nextId, body, business_date, run_id,
                   targets, measurements, payload, result, done_runs, finalized, finalize_calls>>

\* all_targets = _list_all_tables(conn, SYSTEM_SCHEMAS | skip_schemas); targets = ..;
\* if not targets: raise ValueError  (two.py opens its second transaction here)
main_list_all_tables(p) ==
    /\ variant \in WorkVariants
    /\ pc[p] = "list"
    /\ \/ /\ Targets(body[p].skipSchemas, body[p].exclude) # <<>>
          /\ targets' = [targets EXCEPT ![p] = Targets(body[p].skipSchemas, body[p].exclude)]
          /\ tx' = [tx EXCEPT ![p] = Begin(p)]
          /\ pc' = [pc EXCEPT ![p] = "count"]
          /\ UNCHANGED err
       \/ /\ Targets(body[p].skipSchemas, body[p].exclude) = <<>>
          /\ Raise(p, <<"no tables to process after applying exclusions">>)
          /\ UNCHANGED targets
       \/ /\ Raise(p, DbError)
          /\ UNCHANGED targets
    /\ UNCHANGED <<calls, event, variant, today, nextId, db, body, business_date, run_id,
                   measurements, payload, result, done_runs, finalized, finalize_calls>>

\* cnt = _count_exact(conn, schema, table); measurements.append(..); payload..[table] = cnt
main_count_exact(p) ==
    /\ variant \in WorkVariants
    /\ pc[p] = "count"
    /\ LET i == Len(measurements[p]) + 1
           schema == targets[p][i][1]
           table == targets[p][i][2]
       IN  \/ \E cnt \in Counts :
                /\ measurements' = [measurements EXCEPT ![p] =
                                        Append(@, <<run_id[p], schema, table, cnt>>)]
                /\ payload' = [payload EXCEPT ![p] = PayloadPut(@, schema, table, cnt)]
                /\ pc' = [pc EXCEPT ![p] = IF i = Len(targets[p]) THEN "insert_meas" ELSE "count"]
                /\ UNCHANGED <<tx, err>>
           \/ /\ Raise(p, DbError)
              /\ UNCHANGED <<measurements, payload>>
    /\ UNCHANGED <<calls, event, variant, today, nextId, db, body, business_date, run_id,
                   targets, result, done_runs, finalized, finalize_calls>>

\* _insert_measurements(conn, measurements)
main_insert_measurements(p) ==
    /\ variant \in WorkVariants
    /\ pc[p] = "insert_meas"
    /\ \/ /\ tx' = [tx EXCEPT ![p].meas = @ \cup _insert_measurements(measurements[p])]
          /\ pc' = [pc EXCEPT ![p] = "run_snap"]
          /\ UNCHANGED err
       \/ Raise(p, DbError)
    /\ UNCHANGED <<calls, event, variant, today, nextId, db, body, business_date, run_id,
                   targets, measurements, payload, result, done_runs, finalized, finalize_calls>>

\* _write_run_snapshot(conn, run_id, payload)
main_write_run_snapshot(p) ==
    /\ variant \in WorkVariants
    /\ pc[p] = "run_snap"
    /\ \/ /\ tx' = [tx EXCEPT ![p].rsnap =
                        (run_id[p] :> _write_run_snapshot(Lookup(VisRunSnap(p), run_id[p]),
                                                          payload[p], Now(run_id[p]))) @@ @]
          /\ pc' = [pc EXCEPT ![p] = "day_snap"]
          /\ UNCHANGED err
       \/ Raise(p, DbError)
    /\ UNCHANGED <<calls, event, variant, today, nextId, db, body, business_date, run_id,
                   targets, measurements, payload, result, done_runs, finalized, finalize_calls>>

\* _write_daily_snapshot(conn, run_id, business_date, payload): the statement
\* waits while another open transaction holds the row of business_date
main_write_daily_snapshot(p) ==
    /\ variant \in WorkVariants
    /\ pc[p] = "day_snap"
    /\ \/ /\ ~DayLocked(p, business_date[p])
          /\ tx' = [tx EXCEPT ![p].dsnap =
                        (business_date[p] :>
                            _write_daily_snapshot(variant, Lookup(VisDaySnap(p), business_date[p]),
                                                  run_id[p], payload[p], Now(run_id[p]))) @@ @]
          /\ pc' = [pc EXCEPT ![p] = "status"]
          /\ UNCHANGED err
       \/ Raise(p, DbError)
    /\ UNCHANGED <<calls, event, variant, today, nextId, db, body, business_date, run_id,
                   targets, measurements, payload, result, done_runs, finalized, finalize_calls>>

\* variation: the SUCCEEDED update is issued right after the last count
main_update_run_status_early(p) ==
    /\ variant \in WorkVariants
    /\ pc[p] = "insert_meas"
    /\ tx' = [tx EXCEPT ![p].runs =
                    _update_run_status(VisRuns(p), run_id[p], "SUCCEEDED", NoMsg) @@ @]
    /\ pc' = [pc EXCEPT ![p] = "commit"]
    /\ finalize_calls' = [finalize_calls EXCEPT ![p] = @ + 1]
    /\ UNCHANGED <<calls, event, variant, today, nextId, db, body, business_date, run_id,
                   targets, measurements, payload, result, done_runs, finalized, err>>

\* _update_run_status(conn, run_id, "SUCCEEDED", None)
main_update_run_status(p) ==
    /\ variant \in WorkVariants
    /\ pc[p] = "status"
    /\ \/ /\ tx' = [tx EXCEPT ![p].runs =
                        _update_run_status(VisRuns(p), run_id[p], "SUCCEEDED", NoMsg) @@ @]
          /\ pc' = [pc EXCEPT ![p] = "commit"]
          /\ finalize_calls' = [finalize_calls EXCEPT ![p] = @ + 1]
          /\ UNCHANGED err
       \/ /\ Raise(p, DbError)
          /\ UNCHANGED finalize_calls
    /\ UNCHANGED <<calls, event, variant, today, nextId, db, body, business_date, run_id,
                   targets, measurements, payload, result, done_runs, finalized>>

OkResult(p) ==
    [status |-> "ok", runId |-> run_id[p], businessDate |-> business_date[p],
     tablesProcessed |-> tablesProcessed(payload[p])]

\* the with-block ends: COMMIT, then return {"status": "ok", ..}.  A failing COMMIT
\* leaves nothing written; engine.begin() re-raises it, db_conn() of one.py
\* swallows it (try: conn.commit() except Exception: pass).
main_commit(p) ==
    /\ variant \in WorkVariants
    /\ pc[p] = "commit"
    /\ \/ /\ Committed(p)
          /\ done_runs' = Append(done_runs,
                [run_id |-> run_id[p], business_date |-> business_date[p], payload |-> payload[p]])
          /\ tx' = [tx EXCEPT ![p] = NoTx]
          /\ result' = [result EXCEPT ![p] = OkResult(p)]
          /\ pc' = [pc EXCEPT ![p] = "done"]
          /\ finalize_calls' = [finalize_calls EXCEPT ![p] = 0]
          /\ UNCHANGED err
       \/ /\ variant = "one"
          /\ tx' = [tx EXCEPT ![p] = NoTx]
          /\ result' = [result EXCEPT ![p] = OkResult(p)]
          /\ pc' = [pc EXCEPT ![p] = "done"]
          /\ finalize_calls' = [finalize_calls EXCEPT ![p] = 0]
          /\ UNCHANGED <<db, done_runs, err>>
       \/ /\ variant # "one"
          /\ Raise(p, DbError)
          /\ UNCHANGED <<db, done_runs, result, finalize_calls>>
    /\ UNCHANGED <<calls, event, variant, today, nextId, body, business_date, run_id,
                   targets, measurements, payload, finalized>>

\* variation: the exception of the handler's own write replaces the original one
ErrorResultOfHandler(p) == [status |-> "error", message |-> DbError]

ErrorResult(p) == [status |-> "error", message |-> err[p]]

\* variation: every variant's except clause writes to the ledger
HandlerAlwaysWrites(v) == TRUE

\* does the except clause of main() write to the ledger?  (Works.py only returns)
HandlerWrites(v) == v # "Works"

\* except Exception as e:
\*   Works.py: no follow-up write; return {"status": "error", ..}
\*   one.py / two.py: in a fresh transaction, mark the run FAILED when run_id is
\*   set, else insert a FAILED header; any exception of that is swallowed
main_except(p) ==
    /\ variant \in WorkVariants
    /\ pc[p] = "except"
    /\ \/ /\ ~HandlerWrites(variant)
          /\ result' = [result EXCEPT ![p] = ErrorResult(p)]
          /\ pc' = [pc EXCEPT ![p] = "done"]
          /\ UNCHANGED <<tx, today, nextId, finalized>>
          /\ finalize_calls' = [finalize_calls EXCEPT ![p] = 0]
       \/ /\ HandlerWrites(variant)
          /\ run_id[p] # NULL
          /\ tx' = [tx EXCEPT ![p] = [Begin(p) EXCEPT !.runs =
                        _update_run_status(runs, run_id[p], "FAILED", Truncate(err[p]))]]
          /\ pc' = [pc EXCEPT ![p] = "except_commit"]
          /\ UNCHANGED <<result, today, nextId, finalized>>
          /\ finalize_calls' = [finalize_calls EXCEPT ![p] = @ + 1]
       \/ /\ HandlerWrites(variant)
          /\ run_id[p] = NULL
          /\ \E d \in today..MaxDay :
                /\ today' = d
                /\ tx' = [tx EXCEPT ![p] = [Begin(p) EXCEPT !.runs =
                        (nextId :> _insert_run_header("FAILED", body[p].skipSchemas,
                                                      body[p].exclude, Now(nextId), d))]]
          /\ nextId' = nextId + 1
          /\ pc' = [pc EXCEPT ![p] = "except_commit"]
          /\ UNCHANGED <<result, finalized, finalize_calls>>
       \/ /\ HandlerWrites(variant)
          /\ result' = [result EXCEPT ![p] = ErrorResult(p)]
          /\ pc' = [pc EXCEPT ![p] = "done"]
          /\ finalized' = [finalized EXCEPT ![p] = "lost"]
          /\ UNCHANGED <<tx, today, nextId>>
          /\ finalize_calls' = [finalize_calls EXCEPT ![p] = 0]
    /\ UNCHANGED <<calls, event, variant, db, body, business_date, run_id, targets,
                   measurements, payload, err, done_runs>>

\* the handler's with-block ends: COMMIT (a failure is swallowed), then
\* return {"status": "error", "message": str(e)}
main_except_commit(p) ==
    /\ variant \in WorkVariants
    /\ pc[p] = "except_commit"
    /\ \/ /\ Committed(p)
          /\ finalized' = [finalized EXCEPT ![p] = "committed"]
       \/ /\ UNCHANGED db
          /\ finalized' = [finalized EXCEPT ![p] = "lost"]
    /\ tx' = [tx EXCEPT ![p] = NoTx]
    /\ result' = [result EXCEPT ![p] = ErrorResult(p)]
    /\ pc' = [pc EXCEPT ![p] = "done"]
    /\ finalize_calls' = [finalize_calls EXCEPT ![p] = 0]
    /\ UNCHANGED <<calls, event, variant, today, nextId, body, business_date, run_id,
                   targets, measurements, payload, err, done_runs>>

\* ------------------------------------------------------ main(): HTTP variant
\* the status a row of ops.rowcount_run gets from the table's DEFAULT
DefaultStatus == "RUNNING"

\* INSERT INTO ops.rowcount_run(environment, source_system) .. RETURNING run_id
insert_run_header(now) ==
    [status |-> DefaultStatus, error_message |-> NoMsg, collected_at |-> ColumnDefaultNow(now)]

\* UPDATE ops.rowcount_run SET status=:s, error_message=:e WHERE run_id=:id
update_run_status(visible, id, status, error_message) ==
    [r \in {x \in DOMAIN visible : x = id} |->
        [visible[r] EXCEPT !.status = status, !.error_message = error_message]]

list_all_user_tables(exclude) ==
    LET fetched == Pairs(SelectSeq(Catalog, IsUserBaseTable))
        Keep(pair) == SchemaNotIn(exclude, pair)
    IN  SelectSeq(fetched, Keep)

\* SELECT schema_name, table_name FROM ops.rowcount_targets WHERE enabled = true
IsEnabled(row) == row.enabled

list_tables_from_config(exclude) ==
    LET rows == SelectSeq(RowcountTargets, IsEnabled)
        fetched == [i \in 1..Len(rows) |-> <<rows[i].schema_name, rows[i].table_name>>]
        Keep(pair) == SchemaNotIn(exclude, pair)
    IN  [ok |-> TRUE, targets |-> SelectSeq(fetched, Keep)]

\* variation: the error names the last entry without a "."
list_from_payload_last(tables, exclude) ==
    IF \E i \in 1..Len(tables) : ~Contains(tables[i], ".")
    THEN [ok |-> FALSE,
          message |-> <<"Use 'schema.table' format: ">>
                      \o tables[CHOOSE i \in 1..Len(tables) :
                                    /\ ~Contains(tables[i], ".")
                                    /\ \A j \in (i+1)..Len(tables) : Contains(tables[j], ".")]]
    ELSE [ok |-> TRUE,
          targets |-> SelectSeq([i \in 1..Len(tables) |-> Split1(tables[i])],
                                LAMBDA pair : pair[1] \notin exclude)]

\* list_from_payload: the first entry without a "." raises; the others are
\* split at the first "." and kept unless their schema is excluded
BadTables(tables) == {i \in 1..Len(tables) : ~Contains(tables[i], ".")}

list_from_payload(tables, exclude) ==
    IF BadTables(tables) # {}
    THEN [ok |-> FALSE,
          message |-> <<"Use 'schema.table' format: ">>
                      \o tables[CHOOSE i \in BadTables(tables) : \A j \in BadTables(tables) : i <= j]]
    ELSE LET split == [i \in 1..Len(tables) |-> Split1(tables[i])]
             Keep(pair) == SchemaNotIn(exclude, pair)
         IN  [ok |-> TRUE, targets |-> SelectSeq(split, Keep)]

\* if mode == "config" .. elif mode == "all" .. elif mode == "list" .. else raise ValueError
ResolveTargets(b) ==
    CASE b.mode = "config" -> list_tables_from_config(b.excludeSchemas)
      [] b.mode = "all"    -> [ok |-> TRUE, targets |-> list_all_user_tables(b.excludeSchemas)]
      [] b.mode = "list"   -> list_from_payload(b.tables, b.excludeSchemas)
      [] OTHER             -> [ok |-> FALSE, message |-> <<"Unknown mode: ", b.mode>>]

\* variation: the conflict branch leaves run_id as it is
upsert_snapshot_keeprun(old, id, ts, row_count) ==
    IF old = NoRow
    THEN [run_id |-> id, row_count |-> row_count, snapshot_ts |-> ts]
    ELSE [run_id |-> old.run_id, row_count |-> row_count, snapshot_ts |-> ts]

\* INSERT .. ON CONFLICT (schema_name, table_name, snapshot_date) DO UPDATE SET
\* run_id = EXCLUDED.run_id, row_count = EXCLUDED.row_count, snapshot_ts = EXCLUDED.snapshot_ts
upsert_snapshot(old, id, ts, row_count) ==
    IF old = NoRow
    THEN [run_id |-> id, row_count |-> row_count, snapshot_ts |-> ts]
    ELSE [run_id |-> id, row_count |-> row_count, snapshot_ts |-> ts]

\* body = request.get_json(); mode, exact, exclude, include_tables; ts = now(utc); run_id = None
http_start(p) ==
    /\ variant = "http"
    /\ pc[p] = "idle"
    /\ \A q \in Procs : q < p => pc[q] # "idle"
    /\ \E b \in HttpBodies : body' = [body EXCEPT ![p] = b]
    /\ \E d \in today..MaxDay :
        /\ today' = d
        /\ business_date' = [business_date EXCEPT ![p] = d]
    /\ pc' = [pc EXCEPT ![p] = "header"]
    /\ UNCHANGED <<calls, event, variant, nextId, db, tx, run_id, targets, measurements, payload, err,
                   result, done_runs, finalized, finalize_calls>>

\* with engine.begin() as conn: run_id = insert_run_header(conn)
http_insert_run_header(p) ==
    /\ variant = "http"
    /\ pc[p] = "header"
    /\ \/ /\ tx' = [tx EXCEPT ![p] = [Begin(p) EXCEPT !.runs =
                        (nextId :> insert_run_header(Now(nextId))) @@ @]]
          /\ run_id' = [run_id EXCEPT ![p] = nextId]
          /\ nextId' = nextId + 1
          /\ pc' = [pc EXCEPT ![p] = "list"]
          /\ UNCHANGED err
       \/ /\ Raise(p, DbError)
          /\ UNCHANGED <<run_id, nextId>>
    /\ UNCHANGED <<calls, event, variant, today, db, body, business_date, targets, measurements, payload,
                   result, done_runs, finalized, finalize_calls>>

\* targets = list_tables_from_config(..) | list_all_user_tables(..) | list_from_payload(..)
\* | raise ValueError("Unknown mode"); the two catalog queries may fail
http_targets(p) ==
    /\ variant = "http"
    /\ pc[p] = "list"
    /\ \/ /\ ResolveTargets(body[p]).ok
          /\ targets' = [targets EXCEPT ![p] = ResolveTargets(body[p]).targets]
          /\ pc' = [pc EXCEPT ![p] =
                        IF ResolveTargets(body[p]).targets = <<>> THEN "status" ELSE "count"]
          /\ UNCHANGED <<tx, err>>
       \/ /\ ~ResolveTargets(body[p]).ok
          /\ Raise(p, ResolveTargets(body[p]).message)
          /\ UNCHANGED targets
       \/ /\ body[p].mode \in {"config", "all"}
          /\ Raise(p, DbError)
          /\ UNCHANGED targets
    /\ UNCHANGED <<calls, event, variant, today, nextId, db, body, business_date, run_id,
                   measurements, payload, result, done_runs, finalized, finalize_calls>>

\* rc = count_exact(..) if exact else count_approx(..); sizes = get_sizes(..)
http_count(p) ==
    /\ variant = "http"
    /\ pc[p] = "count"
    /\ LET i == Len(measurements[p]) + 1
       IN  \/ \E rc \in Counts :
                /\ measurements' = [measurements EXCEPT ![p] =
                        Append(@, <<run_id[p], targets[p][i][1], targets[p][i][2], rc>>)]
                /\ pc' = [pc EXCEPT ![p] = "upsert"]
                /\ UNCHANGED <<tx, err>>
           \/ /\ Raise(p, DbError)
              /\ UNCHANGED measurements
    /\ UNCHANGED <<calls, event, variant, today, nextId, db, body, business_date, run_id, targets,
                   payload, result, done_runs, finalized, finalize_calls>>

\* upsert_snapshot(conn, run_id, ts, schema, table, rc, sizes); processed += 1
\* (snapshot_date of the row is the day of ts)
http_upsert_snapshot(p) ==
    /\ variant = "http"
    /\ pc[p] = "upsert"
    /\ LET m == measurements[p][Len(measurements[p])]
           key == <<m[2], m[3], business_date[p]>>
       IN  \/ /\ ~SnapLocked(p, key)
              /\ tx' = [tx EXCEPT ![p].snap =
                            (key :> upsert_snapshot(Lookup(VisSnap(p), key), run_id[p],
                                                    Now(run_id[p]), m[4])) @@ @]
              /\ pc' = [pc EXCEPT ![p] =
                            IF Len(measurements[p]) = Len(targets[p]) THEN "status" ELSE "count"]
              /\ UNCHANGED err
           \/ Raise(p, DbError)
    /\ UNCHANGED <<calls, event, variant, today, nextId, db, body, business_date, run_id, targets,
                   measurements, payload, result, done_runs, finalized, finalize_calls>>

\* update_run_status(conn, run_id, "SUCCEEDED")
http_update_run_status(p) ==
    /\ variant = "http"
    /\ pc[p] = "status"
    /\ \/ /\ tx' = [tx EXCEPT ![p].runs =
                        update_run_status(VisRuns(p), run_id[p], "SUCCEEDED", NoMsg) @@ @]
          /\ pc' = [pc EXCEPT ![p] = "commit"]
          /\ finalize_calls' = [finalize_calls EXCEPT ![p] = @ + 1]
          /\ UNCHANGED err
       \/ /\ Raise(p, DbError)
          /\ UNCHANGED finalize_calls
    /\ UNCHANGED <<calls, event, variant, today, nextId, db, body, business_date, run_id, targets,
                   measurements, payload, result, done_runs, finalized>>

HttpOk(p) ==
    [status |-> "ok", mode |-> body[p].mode, run_id |-> run_id[p],
     tablesProcessed |-> Len(measurements[p]), exact |-> body[p].exact]

\* the with-block ends: COMMIT, then make_response({"status": "ok", ..}, 200)
http_commit(p) ==
    /\ variant = "http"
    /\ pc[p] = "commit"
    /\ \/ /\ Committed(p)
          /\ tx' = [tx EXCEPT ![p] = NoTx]
          /\ result' = [result EXCEPT ![p] = HttpOk(p)]
          /\ pc' = [pc EXCEPT ![p] = "done"]
          /\ finalize_calls' = [finalize_calls EXCEPT ![p] = 0]
          /\ UNCHANGED err
       \/ /\ Raise(p, DbError)
          /\ UNCHANGED <<db, result, finalize_calls>>
    /\ UNCHANGED <<calls, event, variant, today, nextId, body, business_date, run_id, targets,
                   measurements, payload, done_runs, finalized>>

\* except Exception as e: with engine.begin() as conn:
\*     if run_id is None: run_id = insert_run_header(conn)
\*     update_run_status(conn, run_id, "FAILED", str(e))
\* (an exception of the handler is swallowed)
http_except(p) ==
    /\ variant = "http"
    /\ pc[p] = "except"
    /\ \/ /\ run_id[p] # NULL
          /\ tx' = [tx EXCEPT ![p] = [Begin(p) EXCEPT !.runs =
                        update_run_status(runs, run_id[p], "FAILED", err[p])]]
          /\ pc' = [pc EXCEPT ![p] = "except_commit"]
          /\ UNCHANGED <<result, nextId, run_id, finalized>>
          /\ finalize_calls' = [finalize_calls EXCEPT ![p] = @ + 1]
       \/ /\ run_id[p] = NULL
          /\ tx' = [tx EXCEPT ![p] = [Begin(p) EXCEPT !.runs =
                        update_run_status((nextId :> insert_run_header(Now(nextId))),
                                          nextId, "FAILED", err[p])]]
          /\ run_id' = [run_id EXCEPT ![p] = nextId]
          /\ nextId' = nextId + 1
          /\ pc' = [pc EXCEPT ![p] = "except_commit"]
          /\ UNCHANGED <<result, finalized>>
          /\ finalize_calls' = [finalize_calls EXCEPT ![p] = @ + 1]
       \/ /\ result' = [result EXCEPT ![p] = ErrorResult(p)]
          /\ pc' = [pc EXCEPT ![p] = "done"]
          /\ finalized' = [finalized EXCEPT ![p] = "lost"]
          /\ UNCHANGED <<tx, nextId, run_id>>
          /\ finalize_calls' = [finalize_calls EXCEPT ![p] = 0]
    /\ UNCHANGED <<calls, event, variant, today, db, body, business_date, targets, measurements, payload,
                   err, done_runs>>

\* the handler's with-block ends: COMMIT (a failure is swallowed), then
\* make_response({"status": "error", "message": str(e)}, 500)
http_except_commit(p) ==
    /\ variant = "http"
    /\ pc[p] = "except_commit"
    /\ \/ /\ Committed(p)
          /\ finalized' = [finalized EXCEPT ![p] = "committed"]
       \/ /\ UNCHANGED db
          /\ finalized' = [finalized EXCEPT ![p] = "lost"]
    /\ tx' = [tx EXCEPT ![p] = NoTx]
    /\ result' = [result EXCEPT ![p] = ErrorResult(p)]
    /\ pc' = [pc EXCEPT ![p] = "done"]
    /\ finalize_calls' = [finalize_calls EXCEPT ![p] = 0]
    /\ UNCHANGED <<calls, event, variant, today, nextId, body, business_date, run_id, targets,
                   measurements, payload, err, done_runs>>

\* one step of invocation p
Step(p) ==
    \/ main_start(p)
    \/ main_insert_run_header(p)
    \/ main_commit_header(p)
    \/ main_list_all_tables(p)
    \/ main_count_exact(p)
    \/ main_insert_measurements(p)
    \/ main_write_run_snapshot(p)
    \/ main_write_daily_snapshot(p)
    \/ main_update_run_status(p)
    \/ main_commit(p)
    \/ main_except(p)
    \/ main_except_commit(p)
    \/ http_start(p)
    \/ http_insert_run_header(p)
    \/ http_targets(p)
    \/ http_count(p)
    \/ http_upsert_snapshot(p)
    \/ http_update_run_status(p)
    \/ http_commit(p)
    \/ http_except(p)
    \/ http_except_commit(p)

Next == \E p \in Procs : Step(p)

Spec == Init /\ [][Next]_vars

\* every invocation that can take a step eventually takes one: a process that
\* runs main() is scheduled, and a statement that waits for a lock can also fail
FairSpec == Init /\ [][Next]_vars /\ \A p \in Procs : WF_vars(Step(p))

\* --------------------------------------- the daily conditional write, alone
\* _write_daily_snapshot applied as one autocommitted statement to every daily
\* table it can meet: per date no row, a row with run_id NULL, or a row of an
\* earlier, the same or a later run.
HarnessIds == 1..(Cardinality(Procs) + 1)

HarnessPayloads == {PayloadPut(Empty, S("app"), S("orders"), c) : c \in Counts}

PriorRows == [run_id : {NULL} \cup HarnessIds,
              payload : HarnessPayloads \cup {LegacyPayload},
              collected_at : {0}]

InitReconciler ==
    /\ variant \in WorkVariants
    /\ day_snap \in UNION {[ds -> PriorRows] : ds \in SUBSET Days}
    /\ InitIdle

\* _write_daily_snapshot(conn, R, D, P); the arguments are kept in the locals of
\* invocation 1
reconcile_daily(R, D, P) ==
    /\ pc[1] = "idle"
    /\ day_snap' = (D :> _write_daily_snapshot(variant, Lookup(day_snap, D), R, P, Now(R)))
                   @@ day_snap
    /\ run_id' = [run_id EXCEPT ![1] = R]
    /\ business_date' = [business_date EXCEPT ![1] = D]
    /\ payload' = [payload EXCEPT ![1] = P]
    /\ pc' = [pc EXCEPT ![1] = "applied"]
    /\ UNCHANGED <<calls, event, variant, today, nextId, runs, meas, run_snap, snap, tx, body, targets,
                   measurements, err, result, done_runs, finalized, finalize_calls>>

NextReconciler ==
    \E R \in HarnessIds, D \in Days, P \in HarnessPayloads : reconcile_daily(R, D, P)

SpecReconciler == InitReconciler /\ [][NextReconciler]_vars

\* ------------------------------------------------- target resolution, alone
\* The resolvers of the repository applied to every request of a bounded shape:
\* simple_db_connection.py (modes config, all, list), google_iternary (modes
\* all, list) and the WORK mains (every base table but the excluded ones).
MaxLen == 2

SeqsUpTo(elems, n) == UNION {[1..k -> elems] : k \in 0..n}

\* entries a caller may put into "tables" or "exclude"
ListEntries == {Fq("app", "orders"), Fq("tmp", "scratch"), Fq("pg_catalog", "pg_class"),
                S("sales"), S("orders")}

ListRequests(modes) ==
    {[mode |-> m, tables |-> t, exact |-> TRUE, excludeSchemas |-> x] :
        m \in modes, t \in SeqsUpTo(ListEntries, MaxLen), x \in SUBSET {S("tmp"), S("app")}}

InverseRequests ==
    {[exclude |-> e, skipSchemas |-> k] :
        e \in SeqsUpTo(ListEntries, MaxLen),
        k \in {<<>>, <<S("tmp")>>, <<S("app"), S("log")>>, <<S("pg_toast"), S("log")>>}}

\* google_iternary _validate_request: mode and the entries of "tables"
_validate_request_iternary(b) ==
    IF b.mode \notin {"all", "list"}
    THEN [ok |-> FALSE, message |-> <<"mode must be 'all' or 'list'">>]
    ELSE IF b.mode = "list" /\ b.tables = <<>>
    THEN [ok |-> FALSE, message |-> <<"when mode='list', provide non-empty 'tables' array">>]
    ELSE IF b.mode = "list" /\ BadTables(b.tables) # {}
    THEN [ok |-> FALSE,
          message |-> <<"table must be 'schema.table': ">>
                      \o b.tables[CHOOSE i \in BadTables(b.tables) :
                                        \A j \in BadTables(b.tables) : i <= j]]
    ELSE [ok |-> TRUE, mode |-> b.mode,
          targets |-> IF b.mode = "list"
                      THEN [i \in 1..Len(b.tables) |-> Split1(b.tables[i])]
                      ELSE <<>>,
          exclude_schemas |-> b.excludeSchemas]

\* google_iternary main: targets of the mode, then "if not targets: raise"
iternary_targets(b) ==
    LET v == _validate_request_iternary(b)
        Keep(pair) == SchemaNotIn(SYSTEM_SCHEMAS \cup v.exclude_schemas, pair)
        found == IF v.mode = "all"
                 THEN _list_all_tables(SYSTEM_SCHEMAS \cup v.exclude_schemas)
                 ELSE SelectSeq(v.targets, Keep)
    IN  IF ~v.ok THEN v
        ELSE IF found = <<>>
        THEN [ok |-> FALSE,
              message |-> <<"no tables to process after applying excludeSchemas/system filters">>]
        ELSE [ok |-> TRUE, targets |-> found]

\* WORK mains: _validate_request, targets, then "if not targets: raise"
inverse_targets(b) ==
    LET v == _validate_request(b)
    IN  IF ~v.ok THEN [ok |-> FALSE, message |-> v.message]
        ELSE IF Targets(v.skip_schemas, v.exclude_tables) = <<>>
        THEN [ok |-> FALSE, message |-> <<"no tables to process after applying exclusions">>]
        ELSE [ok |-> TRUE, targets |-> Targets(v.skip_schemas, v.exclude_tables)]

ResolverVariants == Variants \cup {"iternary"}

InitResolver ==
    /\ variant \in ResolverVariants
    /\ calls = <<>>
    /\ event = [p \in Procs |-> NoEvent]
    /\ day_snap = Empty
    /\ today = 1 /\ nextId = 1 /\ runs = Empty /\ meas = {} /\ run_snap = Empty /\ snap = Empty
    /\ tx = [p \in Procs |-> NoTx]
    /\ pc = [p \in Procs |-> "idle"]
    /\ \E b \in CASE variant = "http"     -> ListRequests({"config", "all", "list", "daily"})
                 [] variant = "iternary" -> ListRequests({"all", "list", "daily"})
                 [] OTHER                -> InverseRequests :
            body = [p \in Procs |-> IF p = 1 THEN b ELSE NoBody]
    /\ business_date = [p \in Procs |-> NULL]
    /\ run_id = [p \in Procs |-> NULL]
    /\ targets = [p \in Procs |-> <<>>]
    /\ measurements = [p \in Procs |-> <<>>]
    /\ payload = [p \in Procs |-> Empty]
    /\ err = [p \in Procs |-> NoMsg]
    /\ result = [p \in Procs |-> NoResult]
    /\ done_runs = <<>>
    /\ finalized = [p \in Procs |-> "none"]
    /\ finalize_calls = [p \in Procs |-> 0]

\* the outcome r of a resolver is kept in the locals of invocation 1
Resolved(r) ==
    /\ pc[1] = "idle"
    /\ IF r.ok
       THEN /\ targets' = [targets EXCEPT ![1] = r.targets]
            /\ pc' = [pc EXCEPT ![1] = "resolved"]
            /\ UNCHANGED err
       ELSE /\ err' = [err EXCEPT ![1] = r.message]
            /\ pc' = [pc EXCEPT ![1] = "rejected"]
            /\ UNCHANGED targets
    /\ UNCHANGED <<calls, event, variant, today, nextId, db, tx, body, business_date, run_id,
                   measurements, payload, result, done_runs, finalized, finalize_calls>>

resolve_http == variant = "http" /\ Resolved(ResolveTargets(body[1]))

resolve_iternary == variant = "iternary" /\ Resolved(iternary_targets(body[1]))

resolve_inverse == variant \in WorkVariants /\ Resolved(inverse_targets(body[1]))

NextResolver == resolve_http \/ resolve_iternary \/ resolve_inverse

SpecResolver == InitResolver /\ [][NextResolver]_vars

\* ------------------------------------------- the per-run snapshot write, alone
\* _write_run_snapshot applied again and again, each time as one autocommitted
\* statement; now() is the wall clock read to the day.  The arguments of the
\* last application are kept in the locals of invocation 1, and done_runs lists
\* the applications (run id, day of the write, payload) in order.
MaxWrites == 3

InitRunSnapshot ==
    /\ variant \in WorkVariants
    /\ day_snap = Empty
    /\ InitIdle

reconcile_run(R, P) ==
    /\ Len(done_runs) < MaxWrites
    /\ \E now \in today..MaxDay :
        /\ today' = now
        /\ run_snap' = (R :> _write_run_snapshot(Lookup(run_snap, R), P, now)) @@ run_snap
        /\ done_runs' = Append(done_runs, [run_id |-> R, business_date |-> now, payload |-> P])
    /\ run_id' = [run_id EXCEPT ![1] = R]
    /\ payload' = [payload EXCEPT ![1] = P]
    /\ pc' = [pc EXCEPT ![1] = "applied"]
    /\ UNCHANGED <<calls, event, variant, nextId, runs, meas, day_snap, snap, tx, body, business_date,
                   targets, measurements, err, result, finalized, finalize_calls>>

NextRunSnapshot ==
    \E R \in HarnessIds, P \in HarnessPayloads : reconcile_run(R, P)

SpecRunSnapshot == InitRunSnapshot /\ [][NextRunSnapshot]_vars

\* ------------------------------------------------ the entry of main(), alone
\* body = _parse_event_body(cloud_event) and the first statement of the try
\* block, applied to every delivery of a bounded shape.
\* A JSON value is a dict (the keys it has, and their values) or something else.
JsonDict(b) == [type |-> "dict", keys |-> {"exclude", "skipSchemas"},
                exclude |-> b.exclude, skipSchemas |-> b.skipSchemas]
JsonEmptyDict == [type |-> "dict", keys |-> {}, exclude |-> <<>>, skipSchemas |-> <<>>]
JsonList == [type |-> "list", keys |-> {}, exclude |-> <<>>, skipSchemas |-> <<>>]
\* an "exclude" entry of ErrMax characters without a "."
LongItem == [i \in 1..ErrMax |-> "x"]
LongBody == [exclude |-> <<LongItem>>, skipSchemas |-> <<>>]
JsonValues == {JsonDict(b) : b \in Bodies \cup {LongBody}} \cup {JsonEmptyDict, JsonList}

\* a text is empty, a JSON document or neither
Texts == {[empty |-> TRUE, wellformed |-> FALSE, value |-> JsonList],
          [empty |-> FALSE, wellformed |-> FALSE, value |-> JsonList]}
         \cup {[empty |-> FALSE, wellformed |-> TRUE, value |-> v] : v \in JsonValues}

\* bytes hold a text when they are valid UTF-8
ByteStrings == [utf8 : BOOLEAN, text : Texts]

\* a base64 string is empty, or encodes bytes when its padding is right
Base64Strings == {[empty |-> TRUE, padding |-> TRUE, bytes |-> b] :
                    b \in {x \in ByteStrings : x.utf8 /\ x.text.empty}}
                 \cup [empty : {FALSE}, padding : BOOLEAN, bytes : ByteStrings]

\* cloud_event.data: a Pub/Sub envelope, a dict, a str, bytes or anything else
Events ==
    {[kind |-> "envelope", b64 |-> x] : x \in Base64Strings}
    \cup {[kind |-> "dict", value |-> v] : v \in JsonValues \ {JsonList}}
    \cup {[kind |-> "str", text |-> t] : t \in Texts}
    \cup {[kind |-> "bytes", bytes |-> b] : b \in ByteStrings}
    \cup {[kind |-> "other"]}

Returns(v) == [ok |-> TRUE, value |-> v]
Raises(msg) == [ok |-> FALSE, message |-> msg]

\* json.loads(text)
json_loads(text) ==
    IF ~text.empty /\ text.wellformed THEN Returns(text.value)
    ELSE Raises(<<"JSONDecodeError">>)

\* bytes.decode("utf-8")
decode(bytes) ==
    IF bytes.utf8 THEN Returns(bytes.text) ELSE Raises(<<"UnicodeDecodeError">>)

\* base64.b64decode(b64)
b64decode(b64) ==
    IF b64.padding THEN Returns(b64.bytes) ELSE Raises(<<"binascii.Error">>)

\* _parse_event_body: the envelope branch decodes and parses unguarded, the
\* str/bytes branch guards json.loads only
_parse_event_body(data) ==
    CASE data.kind = "envelope" ->
            IF data.b64.empty THEN Returns(JsonEmptyDict)
            ELSE IF ~b64decode(data.b64).ok THEN b64decode(data.b64)
            ELSE IF ~decode(b64decode(data.b64).value).ok
                 THEN decode(b64decode(data.b64).value)
            ELSE IF decode(b64decode(data.b64).value).value.empty
                 THEN Returns(JsonEmptyDict)
            ELSE json_loads(decode(b64decode(data.b64).value).value)
      [] data.kind = "dict" -> Returns(data.value)
      [] data.kind = "str" ->
            IF json_loads(data.text).ok THEN json_loads(data.text)
            ELSE Returns(JsonEmptyDict)
      [] data.kind = "bytes" ->
            IF ~decode(data.bytes).ok THEN decode(data.bytes)
            ELSE IF json_loads(decode(data.bytes).value).ok
                 THEN json_loads(decode(data.bytes).value)
            ELSE Returns(JsonEmptyDict)
      [] OTHER -> Returns(JsonEmptyDict)

\* body.get("exclude", []) or [] and body.get("skipSchemas", []) or []
WithDefaults(d) ==
    [exclude |-> IF "exclude" \in d.keys THEN d.exclude ELSE <<>>,
     skipSchemas |-> IF "skipSchemas" \in d.keys THEN d.skipSchemas ELSE <<>>]

InitEntry ==
    /\ variant \in WorkVariants
    /\ calls = <<>>
    /\ \E e \in Events : event = [p \in Procs |-> IF p = 1 THEN e ELSE NoEvent]
    /\ day_snap = Empty
    /\ today = 1 /\ nextId = 1 /\ runs = Empty /\ meas = {} /\ run_snap = Empty /\ snap = Empty
    /\ tx = [p \in Procs |-> NoTx]
    /\ pc = [p \in Procs |-> "idle"]
    /\ body = [p \in Procs |-> NoBody]
    /\ business_date = [p \in Procs |-> NULL]
    /\ run_id = [p \in Procs |-> NULL]
    /\ targets = [p \in Procs |-> <<>>]
    /\ measurements = [p \in Procs |-> <<>>]
    /\ payload = [p \in Procs |-> Empty]
    /\ err = [p \in Procs |-> NoMsg]
    /\ result = [p \in Procs |-> NoResult]
    /\ done_runs = <<>>
    /\ finalized = [p \in Procs |-> "none"]
    /\ finalize_calls = [p \in Procs |-> 0]

\* body = _parse_event_body(cloud_event), before the try block: an exception
\* of it leaves main()
entry_parse ==
    /\ pc[1] = "idle"
    /\ IF _parse_event_body(event[1]).ok
       THEN /\ body' = [body EXCEPT ![1] = _parse_event_body(event[1]).value]
            /\ pc' = [pc EXCEPT ![1] = "parsed"]
            /\ UNCHANGED err
       ELSE /\ err' = [err EXCEPT ![1] = _parse_event_body(event[1]).message]
            /\ pc' = [pc EXCEPT ![1] = "raised"]
            /\ UNCHANGED body
    /\ UNCHANGED <<calls, event, variant, today, nextId, db, tx, business_date, run_id, targets,
                   measurements, payload, result, done_runs, finalized, finalize_calls>>

\* try: exclude_tables, skip_schemas = _validate_request(body)
\* (body.get of a value that is no dict raises AttributeError)
entry_validate ==
    /\ pc[1] = "parsed"
    /\ IF body[1].type # "dict"
       THEN /\ err' = [err EXCEPT ![1] = <<"'list' object has no attribute 'get'">>]
            /\ pc' = [pc EXCEPT ![1] = "except"]
       ELSE IF _validate_request(WithDefaults(body[1])).ok
       THEN /\ pc' = [pc EXCEPT ![1] = "header"]
            /\ UNCHANGED err
       ELSE /\ err' = [err EXCEPT ![1] = _validate_request(WithDefaults(body[1])).message]
            /\ pc' = [pc EXCEPT ![1] = "except"]
    /\ UNCHANGED <<calls, event, variant, today, nextId, db, tx, body, business_date, run_id, targets,
                   measurements, payload, result, done_runs, finalized, finalize_calls>>

\* the entry, and the except clause of main() for what fails in it
NextEntry ==
    \/ entry_parse
    \/ entry_validate
    \/ \E p \in Procs : main_except(p) \/ main_except_commit(p)

SpecEntry == InitEntry /\ [][NextEntry]_vars

\* ------------------------------------------------------- db_conn(), alone
\* with db_conn() as conn: <body>, for a body that writes a run header and then
\* completes or raises.  commit, rollback and close may each fail.
\* variation: without the inner try, a failing commit reaches the outer except
after_commit_error_outer == "rollback"

\* try: conn.commit() / except Exception: pass -- go on to the finally clause
after_commit_error == "close"

BodyErrors == {DbError, <<"no tables to process after applying exclusions">>}

InitDbConn ==
    /\ variant = "one"
    /\ calls = <<>>
    /\ event = [p \in Procs |-> NoEvent]
    /\ day_snap = Empty
    /\ today = 1 /\ nextId = 1 /\ runs = Empty /\ meas = {} /\ run_snap = Empty /\ snap = Empty
    /\ tx = [p \in Procs |-> NoTx]
    /\ pc = [p \in Procs |-> "idle"]
    /\ \E b \in Bodies : body = [p \in Procs |-> IF p = 1 THEN b ELSE NoBody]
    /\ business_date = [p \in Procs |-> NULL]
    /\ run_id = [p \in Procs |-> NULL]
    /\ targets = [p \in Procs |-> <<>>]
    /\ measurements = [p \in Procs |-> <<>>]
    /\ payload = [p \in Procs |-> Empty]
    /\ err = [p \in Procs |-> NoMsg]
    /\ result = [p \in Procs |-> NoResult]
    /\ done_runs = <<>>
    /\ finalized = [p \in Procs |-> "none"]
    /\ finalize_calls = [p \in Procs |-> 0]

\* conn = _get_connection(): a failure leaves db_conn() before its try
db_conn_enter ==
    /\ pc[1] = "idle"
    /\ \/ /\ tx' = [tx EXCEPT ![1] = Begin(1)]
          /\ pc' = [pc EXCEPT ![1] = "body"]
          /\ UNCHANGED err
       \/ /\ err' = [err EXCEPT ![1] = DbError]
          /\ pc' = [pc EXCEPT ![1] = "raised"]
          /\ UNCHANGED tx
    /\ UNCHANGED <<calls, event, variant, today, nextId, db, body, business_date, run_id, targets,
                   measurements, payload, result, done_runs, finalized, finalize_calls>>

\* yield conn: the body inserts a header, then completes or raises
db_conn_body ==
    /\ pc[1] = "body"
    /\ \E status \in {"RUNNING", "FAILED"} : \E d \in today..MaxDay :
        /\ today' = d
        /\ tx' = [tx EXCEPT ![1].runs =
                    (nextId :> _insert_run_header(status, body[1].skipSchemas, body[1].exclude,
                                                  Now(nextId), d)) @@ @]
    /\ run_id' = [run_id EXCEPT ![1] = nextId]
    /\ nextId' = nextId + 1
    /\ \/ /\ pc' = [pc EXCEPT ![1] = "commit"]
          /\ UNCHANGED err
       \/ \E e \in BodyErrors :
          /\ pc' = [pc EXCEPT ![1] = "rollback"]
          /\ err' = [err EXCEPT ![1] = e]
    /\ UNCHANGED <<calls, event, variant, db, body, business_date, targets,
                   measurements, payload, result, done_runs, finalized, finalize_calls>>

\* try: conn.commit() except Exception: pass
db_conn_commit ==
    /\ pc[1] = "commit"
    /\ calls' = Append(calls, "commit")
    /\ \/ /\ Committed(1)
          /\ finalized' = [finalized EXCEPT ![1] = "committed"]
          /\ pc' = [pc EXCEPT ![1] = "close"]
       \/ /\ UNCHANGED db
          /\ finalized' = [finalized EXCEPT ![1] = "lost"]
          /\ pc' = [pc EXCEPT ![1] = after_commit_error]
    /\ UNCHANGED <<event, variant, today, nextId, tx, body, business_date, run_id, targets,
                   measurements, payload, err, result, done_runs, finalize_calls>>

\* except Exception: try: conn.rollback() except Exception: pass; raise
db_conn_rollback ==
    /\ pc[1] = "rollback"
    /\ calls' = Append(calls, "rollback")
    /\ finalized' = [finalized EXCEPT ![1] = "lost"]
    /\ pc' = [pc EXCEPT ![1] = "close"]
    /\ UNCHANGED <<event, variant, today, nextId, db, tx, body, business_date, run_id, targets,
                   measurements, payload, err, result, done_runs, finalize_calls>>

\* finally: try: conn.close() except Exception: pass -- the connection's
\* uncommitted writes are gone; then the with-statement ends or the exception
\* of the body goes on to the caller
db_conn_close ==
    /\ pc[1] = "close"
    /\ calls' = Append(calls, "close")
    /\ tx' = [tx EXCEPT ![1] = NoTx]
    /\ pc' = [pc EXCEPT ![1] = IF err[1] # NoMsg THEN "raised" ELSE "returned"]
    /\ UNCHANGED <<event, variant, today, nextId, db, body, business_date, run_id, targets,
                   measurements, payload, err, result, done_runs, finalized, finalize_calls>>

NextDbConn == db_conn_enter \/ db_conn_body \/ db_conn_commit \/ db_conn_rollback \/ db_conn_close

SpecDbConn == InitDbConn /\ [][NextDbConn]_vars

\* ------------------------------------- google_iternary: the daily report
\* main() of google_iternary/one.py ("nms_one") and google_iternary/two.py
\* ("nms_two").  nms.nms_daily_reporting is kept in day_snap (snapshot_date ->
\* row) and an invocation's snapshot_date local in business_date (NULL while
\* the name is unbound).
NmsVariants == {"nms_one", "nms_two"}

\* "snapshotDate" of a request: absent, an ISO date, or some other string
NoDate == [given |-> FALSE, iso |-> FALSE, date |-> NULL]
IsoDate(d) == [given |-> TRUE, iso |-> TRUE, date |-> d]
NotADate == [given |-> TRUE, iso |-> FALSE, date |-> NULL]

NmsRequest(mode, tables, excludeSchemas, snapshotDate) ==
    [mode |-> mode, tables |-> tables, exact |-> TRUE, excludeSchemas |-> excludeSchemas,
     snapshotDate |-> snapshotDate]

NmsRequests ==
    {NmsRequest("all", <<>>, {S("app"), S("log")}, NoDate),
     NmsRequest("all", <<>>, {S("app"), S("log")}, IsoDate(1)),
     NmsRequest("all", <<>>, {S("app"), S("log"), S("tmp")}, NoDate),
     NmsRequest("all", <<>>, {S("app"), S("log")}, NotADate),
     NmsRequest("list", <<Fq("app", "orders")>>, {}, NoDate),
     NmsRequest("list", <<>>, {}, NoDate),
     NmsRequest("list", <<S("sales")>>, {}, IsoDate(1)),
     NmsRequest("daily", <<>>, {}, NoDate)}

\* _validate_request with its date: mode, then snapshotDate (date.fromisoformat
\* or now(SNAPSHOT_TZ).date()), then the entries of "tables"
_validate_request_dated(b, now) ==
    IF b.mode \notin {"all", "list"} THEN _validate_request_iternary(b)
    ELSE IF b.snapshotDate.given /\ ~b.snapshotDate.iso
    THEN [ok |-> FALSE, message |-> <<"Invalid isoformat string">>]
    ELSE IF ~_validate_request_iternary(b).ok THEN _validate_request_iternary(b)
    ELSE [ok |-> TRUE, snapshot_date |-> IF b.snapshotDate.given THEN b.snapshotDate.date ELSE now]

\* INSERT INTO nms.nms_daily_reporting .. ON CONFLICT (snapshot_date) DO UPDATE
\* SET status, payload, error_message = EXCLUDED.*, generated_at = now()
_upsert_daily(old, status, counts, error_message, now) ==
    IF old = NoRow
    THEN [status |-> status, payload |-> counts, error_message |-> error_message,
          generated_at |-> now]
    ELSE [old EXCEPT !.status = status, !.payload = counts,
                     !.error_message = error_message, !.generated_at = now]

InitNms ==
    /\ variant \in NmsVariants
    /\ day_snap = Empty
    /\ InitIdle

\* body = _parse_event_body(..); try: .. snapshot_date = _validate_request(body)
\* (two.py: then conn = _acquire_connection(), whose failure goes to the outer
\* except as a validation failure does)
nms_start(p) ==
    /\ variant \in NmsVariants
    /\ pc[p] = "idle"
    /\ \A q \in Procs : q < p => pc[q] # "idle"
    /\ \E b \in NmsRequests : \E now \in today..MaxDay :
        /\ body' = [body EXCEPT ![p] = b]
        /\ today' = now
        /\ \/ /\ _validate_request_dated(b, now).ok
              /\ business_date' = [business_date EXCEPT ![p] =
                                        _validate_request_dated(b, now).snapshot_date]
              /\ pc' = [pc EXCEPT ![p] = "list"]
              /\ UNCHANGED err
           \/ /\ ~_validate_request_dated(b, now).ok
              /\ err' = [err EXCEPT ![p] = _validate_request_dated(b, now).message]
              /\ pc' = [pc EXCEPT ![p] = IF variant = "nms_two" THEN "except_outer" ELSE "except"]
              /\ UNCHANGED business_date
           \/ /\ variant = "nms_two"
              /\ _validate_request_dated(b, now).ok
              /\ err' = [err EXCEPT ![p] = DbError]
              /\ pc' = [pc EXCEPT ![p] = "except_outer"]
              /\ UNCHANGED business_date
    /\ UNCHANGED <<calls, event, variant, nextId, db, tx, run_id, targets, measurements, payload,
                   result, done_runs, finalized, finalize_calls>>

\* with engine.begin() as conn / the connection acquired before: targets of
\* the mode (a catalog query in mode "all"); if not targets: raise ValueError
nms_targets(p) ==
    /\ variant \in NmsVariants
    /\ pc[p] = "list"
    /\ \/ /\ iternary_targets(body[p]).ok
          /\ targets' = [targets EXCEPT ![p] = iternary_targets(body[p]).targets]
          /\ tx' = [tx EXCEPT ![p] = Begin(p)]
          /\ pc' = [pc EXCEPT ![p] = "count"]
          /\ UNCHANGED err
       \/ /\ ~iternary_targets(body[p]).ok
          /\ Raise(p, iternary_targets(body[p]).message)
          /\ UNCHANGED targets
       \/ /\ variant = "nms_one" \/ body[p].mode = "all"
          /\ Raise(p, DbError)
          /\ UNCHANGED targets
    /\ UNCHANGED <<calls, event, variant, today, nextId, db, body, business_date, run_id,
                   measurements, payload, result, done_runs, finalized, finalize_calls>>

\* rc = _count_exact(conn, schema, table); counts[f"{schema}.{table}"] = rc
nms_count(p) ==
    /\ variant \in NmsVariants
    /\ pc[p] = "count"
    /\ LET i == Len(measurements[p]) + 1
           schema == targets[p][i][1]
           table == targets[p][i][2]
       IN  \/ \E rc \in Counts :
                /\ measurements' = [measurements EXCEPT ![p] = Append(@, <<schema, table, rc>>)]
                /\ payload' = [payload EXCEPT ![p] = (schema \o <<".">> \o table :> rc) @@ @]
                /\ pc' = [pc EXCEPT ![p] = IF i = Len(targets[p]) THEN "upsert" ELSE "count"]
                /\ UNCHANGED <<tx, err>>
           \/ /\ Raise(p, DbError)
              /\ UNCHANGED <<measurements, payload>>
    /\ UNCHANGED <<calls, event, variant, today, nextId, db, body, business_date, run_id,
                   targets, result, done_runs, finalized, finalize_calls>>

\* _upsert_daily(conn, snapshot_date, "SUCCEEDED", counts, None): the statement
\* waits while another open transaction holds the row of snapshot_date
nms_upsert(p) ==
    /\ variant \in NmsVariants
    /\ pc[p] = "upsert"
    /\ \/ /\ ~DayLocked(p, business_date[p])
          /\ tx' = [tx EXCEPT ![p].dsnap =
                        (business_date[p] :>
                            _upsert_daily(Lookup(VisDaySnap(p), business_date[p]),
                                          "SUCCEEDED", payload[p], NoMsg, today)) @@ @]
          /\ pc' = [pc EXCEPT ![p] = "commit"]
          /\ UNCHANGED err
       \/ Raise(p, DbError)
    /\ UNCHANGED <<calls, event, variant, today, nextId, db, body, business_date, run_id,
                   targets, measurements, payload, result, done_runs, finalized, finalize_calls>>

NmsOkResult(p) ==
    [status |-> "ok", date |-> business_date[p], tablesProcessed |-> Cardinality(DOMAIN payload[p])]

\* the with-block ends / conn.commit(); return {"status": "ok", ..}
nms_commit(p) ==
    /\ variant \in NmsVariants
    /\ pc[p] = "commit"
    /\ \/ /\ Committed(p)
          /\ done_runs' = Append(done_runs,
                [run_id |-> p, business_date |-> business_date[p], payload |-> payload[p]])
          /\ tx' = [tx EXCEPT ![p] = NoTx]
          /\ result' = [result EXCEPT ![p] = NmsOkResult(p)]
          /\ pc' = [pc EXCEPT ![p] = "done"]
          /\ UNCHANGED err
       \/ /\ Raise(p, DbError)
          /\ UNCHANGED <<db, done_runs, result>>
    /\ UNCHANGED <<calls, event, variant, today, nextId, body, business_date, run_id,
                   targets, measurements, payload, finalized, finalize_calls>>

\* one.py: {"status": "error", "message": str(e)};
\* two.py: {"status": "error", "date": .., "message": str(e)}
NmsErrorResult(p, date) ==
    IF variant = "nms_one" THEN [status |-> "error", message |-> err[p]]
    ELSE [status |-> "error", date |-> date, message |-> err[p]]

\* one.py, except Exception as e: in a fresh transaction the handler reads
\* snapshot_date -- unbound when _validate_request raised, which raises
\* UnboundLocalError -- and upserts a FAILED row; any exception of that is swallowed.
\* two.py, inner except: rollback, then the FAILED upsert on the same connection.
nms_except(p) ==
    /\ variant \in NmsVariants
    /\ pc[p] = "except"
    /\ \/ /\ business_date[p] # NULL
          /\ ~DayLocked(p, business_date[p])
          /\ tx' = [tx EXCEPT ![p] = [Begin(p) EXCEPT !.dsnap =
                        (business_date[p] :>
                            _upsert_daily(Lookup(day_snap, business_date[p]),
                                          "FAILED", Empty, Truncate(err[p]), today))]]
          /\ pc' = [pc EXCEPT ![p] = "except_commit"]
          /\ UNCHANGED <<result, finalized>>
       \/ /\ result' = [result EXCEPT ![p] = NmsErrorResult(p, business_date[p])]
          /\ pc' = [pc EXCEPT ![p] = "done"]
          /\ finalized' = [finalized EXCEPT ![p] = "lost"]
          /\ UNCHANGED tx
    /\ UNCHANGED <<calls, event, variant, today, nextId, db, body, business_date, run_id, targets,
                   measurements, payload, err, done_runs, finalize_calls>>

\* the handler's transaction ends: COMMIT (a failure is swallowed), then return
nms_except_commit(p) ==
    /\ variant \in NmsVariants
    /\ pc[p] = "except_commit"
    /\ \/ /\ Committed(p)
          /\ finalized' = [finalized EXCEPT ![p] = "committed"]
       \/ /\ UNCHANGED db
          /\ finalized' = [finalized EXCEPT ![p] = "lost"]
    /\ tx' = [tx EXCEPT ![p] = NoTx]
    /\ result' = [result EXCEPT ![p] = NmsErrorResult(p, business_date[p])]
    /\ pc' = [pc EXCEPT ![p] = "done"]
    /\ UNCHANGED <<calls, event, variant, today, nextId, body, business_date, run_id, targets,
                   measurements, payload, err, done_runs, finalize_calls>>

\* two.py, outer except: safe_date = now(SNAPSHOT_TZ).date(); nothing is
\* written; return {"status": "error", "date": str(safe_date), ..}
nms_except_outer(p) ==
    /\ variant = "nms_two"
    /\ pc[p] = "except_outer"
    /\ \E now \in today..MaxDay :
        /\ today' = now
        /\ result' = [result EXCEPT ![p] = NmsErrorResult(p, now)]
    /\ pc' = [pc EXCEPT ![p] = "done"]
    /\ UNCHANGED <<calls, event, variant, nextId, db, tx, body, business_date, run_id, targets,
                   measurements, payload, err, done_runs, finalized, finalize_calls>>

NextNms ==
    \E p \in Procs :
        \/ nms_start(p)
        \/ nms_targets(p)
        \/ nms_count(p)
        \/ nms_upsert(p)
        \/ nms_commit(p)
        \/ nms_except(p)
        \/ nms_except_commit(p)
        \/ nms_except_outer(p)

SpecNms == InitNms /\ [][NextNms]_vars

\* ------------------------------------------------------------- properties
\* rows of run r in the measurement and snapshot tables
NoDataOf(r) ==
    /\ \A m \in meas : m.run_id # r
    /\ r \notin DOMAIN run_snap
    /\ \A d \in DOMAIN day_snap : day_snap[d].run_id # r

\* the measurement rows a payload stands for
MeasOf(r, pl) ==
    UNION {{[run_id |-> r, schema_name |-> s, table_name |-> t, row_count |-> pl[s][t]] :
                t \in DOMAIN pl[s]} : s \in DOMAIN pl}

\* C1: for every business date the run identifier stored in the committed daily
\* row never decreases, whatever runs write it and however they interleave
\* (daily rows of the WORK variants, per-table daily rows of the HTTP variant).
C1_DailyRunIdNeverDecreases ==
    [][/\ \A d \in DOMAIN day_snap :
            /\ d \in DOMAIN day_snap'
            /\ day_snap[d].run_id # NULL => day_snap'[d].run_id >= day_snap[d].run_id
       /\ \A k \in DOMAIN snap :
            /\ k \in DOMAIN snap'
            /\ snap'[k].run_id >= snap[k].run_id]_vars

\* C2: a daily write of run R for date D is applied exactly when D has no row,
\* or its row has a null run id, or R is strictly greater than the stored run
\* id; an applied write replaces run id and payload by those of R, a refused
\* one leaves the row as it was, and no other date is touched.
C2_DailyWriteAppliedIff ==
    [][pc'[1] = "applied" =>
        LET D == business_date'[1]
            R == run_id'[1]
            old == Lookup(day_snap, D)
            new == Lookup(day_snap', D)
            accept == \/ old = NoRow
                      \/ old.run_id = NULL
                      \/ R > old.run_id
        IN  /\ accept => /\ new.run_id = R
                         /\ new.payload = payload'[1]
                         /\ new.collected_at = Now(R)
            /\ ~accept => new = old
            /\ \A d \in Days \ {D} : Lookup(day_snap', d) = Lookup(day_snap, d)]_vars

\* C2 witness: a write whose run id equals the stored one was refused (the row
\* keeps a payload other than the one offered).
C2_Witness ==
    /\ pc[1] = "applied"
    /\ business_date[1] \in DOMAIN day_snap
    /\ day_snap[business_date[1]].run_id = run_id[1]
    /\ day_snap[business_date[1]].payload # payload[1]

\* the daily write of p completes against a row whose run id is not smaller
StaleDailyWrite(p) ==
    /\ variant \in WorkVariants
    /\ pc[p] = "day_snap"
    /\ pc'[p] = "status"
    /\ Lookup(VisDaySnap(p), business_date[p]) # NoRow
    /\ Lookup(VisDaySnap(p), business_date[p]).run_id # NULL
    /\ run_id[p] <= Lookup(VisDaySnap(p), business_date[p]).run_id

\* C3: a daily write with a run id equal to or smaller than the stored one
\* leaves the row (run id, payload, collected timestamp) unchanged and raises
\* nothing, and every committed run has its measurement rows and its per-run
\* snapshot stored, whether or not its daily write was applied.
C3_StaleWriteIsNoOp ==
    /\ [][\A p \in Procs : StaleDailyWrite(p) =>
            /\ tx'[p].dsnap[business_date[p]] = Lookup(VisDaySnap(p), business_date[p])
            /\ day_snap' = day_snap
            /\ err'[p] = err[p]]_vars
    /\ [](\A i \in 1..Len(done_runs) :
            /\ done_runs[i].run_id \in DOMAIN run_snap
            /\ run_snap[done_runs[i].run_id].payload = done_runs[i].payload
            /\ MeasOf(done_runs[i].run_id, done_runs[i].payload) \subseteq meas
            /\ MeasOf(done_runs[i].run_id, done_runs[i].payload) # {})

\* C3 witness: a run has gone past its daily write holding the row of a later
\* run (its own write was refused) with its measurements and per-run snapshot
\* staged, and is about to commit.
C3_Witness ==
    \E p \in Procs :
        /\ variant \in WorkVariants
        /\ pc[p] = "commit"
        /\ tx[p].dsnap[business_date[p]].run_id > run_id[p]
        /\ run_id[p] \in DOMAIN tx[p].rsnap
        /\ tx[p].meas # {}

\* C4: for every date, the committed daily row holds the greatest run id among
\* the runs committed for that date, with that run's payload, in whatever
\* order the runs committed.
C4_DailyRowIsGreatestCommittedRun ==
    \A d \in Days :
        LET rs == {i \in 1..Len(done_runs) : done_runs[i].business_date = d}
        IN  rs # {} =>
                \E i \in rs :
                    /\ \A j \in rs : done_runs[j].run_id <= done_runs[i].run_id
                    /\ d \in DOMAIN day_snap
                    /\ day_snap[d].run_id = done_runs[i].run_id
                    /\ day_snap[d].payload = done_runs[i].payload

\* C4 witness: two runs of one date committed out of order (the later run id
\* first) with different payloads.
C4_Witness ==
    /\ Len(done_runs) = 2
    /\ done_runs[1].business_date = done_runs[2].business_date
    /\ done_runs[1].run_id > done_runs[2].run_id
    /\ done_runs[1].payload # done_runs[2].payload

\* a daily row carries the run id and the payload of one and the same run
FromOneRun(row) ==
    \/ row = NoRow
    \/ /\ row.run_id = NULL
       /\ row.payload = LegacyPayload
    \/ \E q \in Procs : run_id[q] = row.run_id /\ payload[q] = row.payload

\* C5: in every reachable state each daily row, committed or staged in an open
\* transaction, carries the run id and the payload of the same run.
C5_RunIdAndPayloadFromSameRun ==
    variant \in WorkVariants =>
        \A d \in Days :
            /\ FromOneRun(Lookup(day_snap, d))
            /\ \A p \in Procs : FromOneRun(Lookup(tx[p].dsnap, d))

\* C5 witness: the committed daily row belongs to one run while another run
\* with a different payload has written the same date and committed.
C5_Witness ==
    \E d \in DOMAIN day_snap : \E q \in Procs :
        /\ day_snap[d].run_id # NULL
        /\ run_id[q] # NULL
        /\ run_id[q] # day_snap[d].run_id
        /\ business_date[q] = d
        /\ run_id[q] \in DOMAIN run_snap
        /\ payload[q] # day_snap[d].payload

\* the invocation of p returned an error after counting some, not all, targets
CountFailedPartWay(p) ==
    /\ variant \in WorkVariants
    /\ pc[p] = "done"
    /\ result[p].status = "error"
    /\ Len(measurements[p]) >= 1
    /\ Len(measurements[p]) < Len(targets[p])

\* C6: when the count of a target fails part-way through a run, then after the
\* invocation has returned no measurement row of the run is stored and the
\* run's record exists with status FAILED.
C6_PartialFailureLeavesFailedRun ==
    \A p \in Procs :
        CountFailedPartWay(p) =>
            /\ \A m \in meas : m.run_id # run_id[p]
            /\ run_id[p] \in DOMAIN runs
            /\ runs[run_id[p]].status = "FAILED"

\* C7: in Works.py the committed tables change only in the commit step of an
\* invocation that returns ok, and an invocation that returned an error has
\* left nothing behind: no header, no measurement, no snapshot row.
C7_FullyAtomicFailureWritesNothing ==
    /\ [][variant = "Works" /\ db' # db =>
            \E p \in Procs : /\ pc[p] = "commit"
                             /\ pc'[p] = "done"
                             /\ result'[p].status = "ok"]_vars
    /\ [](variant = "Works" =>
            \A p \in Procs :
                result[p].status = "error" /\ run_id[p] # NULL =>
                    /\ run_id[p] \notin DOMAIN runs
                    /\ NoDataOf(run_id[p]))

\* C7 witness: in Works.py one invocation has committed and another, which had
\* its header and all its counts, failed afterwards and returned an error.
C7_Witness ==
    /\ variant = "Works"
    /\ Len(done_runs) = 1
    /\ \E p \in Procs :
        /\ pc[p] = "done"
        /\ result[p].status = "error"
        /\ run_id[p] # NULL
        /\ Len(measurements[p]) = Len(targets[p])
        /\ Len(targets[p]) > 0

\* two.py: the invocation of p failed after its header was committed
FailedAfterHeader(p) ==
    /\ variant = "two"
    /\ pc[p] = "done"
    /\ result[p].status = "error"
    /\ run_id[p] \in DOMAIN runs

\* C8 as stated: in two.py, after a failure in steps 2-6 the committed run
\* record has status FAILED and the error message, and no measurement or
\* snapshot data of the run is stored.
C8_HeaderDurableAlwaysFailed ==
    \A p \in Procs :
        FailedAfterHeader(p) =>
            /\ runs[run_id[p]].status = "FAILED"
            /\ runs[run_id[p]].error_message = Truncate(err[p])
            /\ NoDataOf(run_id[p])

\* C8 amended: in two.py, after a failure in steps 2-6 the record committed in
\* step 1 exists and no measurement or snapshot data of the run is stored; the
\* record has status FAILED and the (truncated) error message when the
\* handler's own transaction committed, and is still RUNNING with no message
\* when that transaction failed.
C8_HeaderDurableBestEffort ==
    \A p \in Procs :
        FailedAfterHeader(p) =>
            /\ finalized[p] = "committed" =>
                    /\ runs[run_id[p]].status = "FAILED"
                    /\ runs[run_id[p]].error_message = Truncate(err[p])
            /\ finalized[p] # "committed" =>
                    /\ runs[run_id[p]].status = "RUNNING"
                    /\ runs[run_id[p]].error_message = NoMsg
            /\ NoDataOf(run_id[p])

\* C8 witness: two failed invocations of two.py that had staged their data;
\* one was marked FAILED, the other's handler lost its transaction.
C8_Witness ==
    \E p \in Procs : \E q \in Procs :
        /\ FailedAfterHeader(p)
        /\ FailedAfterHeader(q)
        /\ finalized[p] = "committed"
        /\ finalized[q] = "lost"
        /\ Len(measurements[p]) = Len(targets[p])
        /\ Len(targets[p]) > 0

\* C9: the status of a committed run record changes only from RUNNING to
\* SUCCEEDED or from RUNNING to FAILED; a record is never removed.
C9_StatusOnlyLeavesRunning ==
    [][\A r \in DOMAIN runs :
            /\ r \in DOMAIN runs'
            /\ runs'[r].status # runs[r].status =>
                    /\ runs[r].status = "RUNNING"
                    /\ runs'[r].status \in {"SUCCEEDED", "FAILED"}]_vars

\* C9 witness: a record that was committed RUNNING is now FAILED while another
\* record is SUCCEEDED and a handler has run after that.
C9_Witness ==
    /\ variant = "two"
    /\ \E p \in Procs : \E q \in Procs :
        /\ FailedAfterHeader(p)
        /\ runs[run_id[p]].status = "FAILED"
        /\ run_id[q] \in DOMAIN runs
        /\ runs[run_id[q]].status = "SUCCEEDED"
        /\ run_id[q] < run_id[p]

\* the run records the step inserts in the transaction of p
NewRunRows(p) == DOMAIN tx'[p].runs \ (DOMAIN tx[p].runs \cup DOMAIN runs)

C11_FinalizeAtMostOnce ==
    \A p \in Procs : finalize_calls[p] <= 1

\* the invocation has ended on a request it rejected as malformed
ValidationFailed(p) ==
    /\ pc[p] = "done"
    /\ result[p].status = "error"
    /\ IF variant = "http"
       THEN ~ResolveTargets(body[p]).ok /\ err[p] = ResolveTargets(body[p]).message
       ELSE ~_validate_request(body[p]).ok /\ err[p] = _validate_request(body[p]).message

ValidationRaised(p) ==
    /\ pc[p] \in {"except", "except_commit"}
    /\ IF variant = "http"
       THEN ~ResolveTargets(body[p]).ok /\ err[p] = ResolveTargets(body[p]).message
       ELSE ~_validate_request(body[p]).ok /\ err[p] = _validate_request(body[p]).message

CheckedEntries ==
    IF variant \in WorkVariants THEN body[1].exclude
    ELSE IF body[1].mode = "list" THEN body[1].tables ELSE <<>>

Malformed(entries) == \E i \in 1..Len(entries) : "." \notin Range(entries[i])

FirstMalformed(entries) ==
    entries[CHOOSE i \in 1..Len(entries) :
                /\ "." \notin Range(entries[i])
                /\ \A j \in 1..(i-1) : "." \in Range(entries[j])]

EndsWith(str, tail) ==
    Len(str) >= Len(tail) /\ SubSeq(str, Len(str) - Len(tail) + 1, Len(str)) = tail

C14_EmptyTargetSetNeverSucceeds ==
    \A p \in Procs :
        /\ result[p].status = "ok" => result[p].tablesProcessed > 0
        /\ (run_id[p] \in DOMAIN runs /\ runs[run_id[p]].status = "SUCCEEDED")
                => targets[p] # <<>>

\* the request asks for discovery over the whole catalog
FullDiscovery == variant \in WorkVariants \/ body[1].mode = "all"

\* C15: discovery over the catalog returns no table of pg_catalog,
\* information_schema or pg_toast, whatever schemas and tables the caller
\* excludes.
C15_DiscoveryNeverReturnsSystemTables ==
    (pc[1] = "resolved" /\ FullDiscovery) =>
        \A i \in 1..Len(targets[1]) : targets[1][i][1] \notin SYSTEM_SCHEMAS

C15_Witness ==
    /\ pc[1] = "resolved"
    /\ variant = "http"
    /\ body[1].mode = "all"
    /\ body[1].excludeSchemas = {}
    /\ Len(targets[1]) = 4

\* the schemas the caller of invocation p asked to leave out
CallerExcluded(p) ==
    IF variant = "http" THEN body[p].excludeSchemas ELSE Range(body[p].skipSchemas)

\* C16: in every mode the schemas left out are the caller's excluded schemas
\* together with the system schemas: no table of such a schema is measured by
\* an invocation and none is written to the per-table snapshot.
C16_ExcludedAndSystemSchemasNeverMeasured ==
    /\ \A p \in Procs : \A i \in 1..Len(measurements[p]) :
            measurements[p][i][2] \notin SYSTEM_SCHEMAS \cup CallerExcluded(p)
    /\ \A key \in DOMAIN snap : key[1] \notin SYSTEM_SCHEMAS

\* the run of invocation p is committed with status SUCCEEDED
Succeeded(p) ==
    /\ variant \in WorkVariants
    /\ run_id[p] \in DOMAIN runs
    /\ runs[run_id[p]].status = "SUCCEEDED"

\* C17: the committed measurement rows of a SUCCEEDED run are one row for each
\* (schema, table) the resolver gives for the request, none missing and none
\* extra, and each row carries the count the collector returned for the table.
C17_MeasurementsMatchTargets ==
    \A p \in Procs :
        Succeeded(p) =>
            LET resolved == Targets(body[p].skipSchemas, body[p].exclude)
                rows == {m \in meas : m.run_id = run_id[p]}
            IN  /\ Len(measurements[p]) = Len(resolved)
                /\ Cardinality(rows) = Len(resolved)
                /\ \A i \in 1..Len(resolved) :
                        /\ <<measurements[p][i][2], measurements[p][i][3]>> = resolved[i]
                        /\ [run_id |-> run_id[p], schema_name |-> resolved[i][1],
                            table_name |-> resolved[i][2],
                            row_count |-> measurements[p][i][4]] \in rows

C17_Witness ==
    \E p \in Procs :
        /\ Succeeded(p)
        /\ Len(measurements[p]) = 2
        /\ measurements[p][1][4] # measurements[p][2][4]
        /\ Cardinality({m \in meas : m.run_id = run_id[p]}) = 2

\* C18: when an invocation has returned, its payload holds payload[s][t] = c for
\* the triples (s, t, c) it measured and nothing else (whether it measured all
\* targets or failed part-way); the per-run snapshot of a SUCCEEDED run and the
\* daily row that accepted the run carry that payload; tablesProcessed of a
\* success is the number of measured targets.
C18_PayloadIsTheMeasurements ==
    \A p \in Procs :
        (variant \in WorkVariants /\ pc[p] = "done") =>
            LET ms == measurements[p]
                pl == payload[p]
            IN  /\ \A i \in 1..Len(ms) :
                        /\ ms[i][2] \in DOMAIN pl
                        /\ ms[i][3] \in DOMAIN pl[ms[i][2]]
                        /\ pl[ms[i][2]][ms[i][3]] = ms[i][4]
                /\ \A s \in DOMAIN pl : \A t \in DOMAIN pl[s] :
                        \E i \in 1..Len(ms) : ms[i][2] = s /\ ms[i][3] = t
                /\ Succeeded(p) =>
                        /\ run_id[p] \in DOMAIN run_snap
                        /\ run_snap[run_id[p]].payload = pl
                        /\ \A d \in DOMAIN day_snap :
                                day_snap[d].run_id = run_id[p] => day_snap[d].payload = pl
                /\ result[p].status = "ok" => result[p].tablesProcessed = Len(ms)

C18_Witness ==
    \E p \in Procs :
        /\ Succeeded(p)
        /\ result[p].status = "ok"
        /\ result[p].tablesProcessed = 2
        /\ DOMAIN payload[p] = {S("app")}
        /\ payload[p][S("app")] = (S("orders") :> 1) @@ (S("customers") :> 0)
        /\ business_date[p] \in DOMAIN day_snap
        /\ day_snap[business_date[p]].run_id = run_id[p]

\* position of a (schema, table) pair among the base tables of the catalog
CatalogIndex(pair) ==
    CHOOSE i \in 1..Len(Catalog) :
        /\ Catalog[i].table_type = "BASE TABLE"
        /\ <<Catalog[i].table_schema, Catalog[i].table_name>> = pair

\* the base tables of the catalog that the request of invocation 1 leaves in:
\* schema neither a system schema nor skipped, name not listed in "exclude"
Remaining ==
    {<<Catalog[i].table_schema, Catalog[i].table_name>> : i \in
        {j \in 1..Len(Catalog) :
            /\ Catalog[j].table_type = "BASE TABLE"
            /\ Catalog[j].table_schema \notin SYSTEM_SCHEMAS \cup Range(body[1].skipSchemas)
            /\ \A k \in 1..Len(body[1].exclude) :
                    body[1].exclude[k] # Catalog[j].table_schema \o <<".">> \o Catalog[j].table_name}}

\* C19: with a well-formed "exclude", the targets are the base tables of the
\* catalog minus those of a system or skipped schema and minus those named by
\* an "exclude" entry, each once and in catalog order; the request is rejected
\* only when none remains.
C19_InverseModeTargets ==
    (variant \in WorkVariants /\ pc[1] \in {"resolved", "rejected"}
        /\ ~Malformed(body[1].exclude)) =>
        IF pc[1] = "rejected"
        THEN Remaining = {}
        ELSE /\ Range(targets[1]) = Remaining
             /\ Remaining # {}
             /\ \A i, j \in 1..Len(targets[1]) :
                    i < j => CatalogIndex(targets[1][i]) < CatalogIndex(targets[1][j])

C19_Witness ==
    /\ variant = "Works"
    /\ pc[1] = "resolved"
    /\ body[1].exclude = <<Fq("app", "orders"), Fq("pg_catalog", "pg_class")>>
    /\ body[1].skipSchemas = <<S("tmp")>>
    /\ targets[1] = <<<<S("app"), S("customers")>>, <<S("log"), S("audit")>>>>

\* the step writes the per-run snapshot of a run whose stored row already
\* holds the payload being written
SamePayloadAgain ==
    /\ pc'[1] = "applied"
    /\ run_id'[1] \in DOMAIN run_snap
    /\ run_snap[run_id'[1]].payload = payload'[1]

RunsWithData ==
    {m.run_id : m \in meas} \cup DOMAIN run_snap \cup {snap[key].run_id : key \in DOMAIN snap}

\* C22: in every committed state the runs that own measurement rows or a
\* per-run snapshot are committed with status SUCCEEDED; a run that is FAILED
\* or still RUNNING owns none.
C22_DataOnlyOfSucceededRuns ==
    \A r \in RunsWithData : r \in DOMAIN runs /\ runs[r].status = "SUCCEEDED"

C22_Witness ==
    \E p \in Procs : \E q \in Procs \ {p} :
        /\ CountFailedPartWay(p)
        /\ run_id[p] \in DOMAIN runs
        /\ runs[run_id[p]].status = "FAILED"
        /\ Succeeded(q)
        /\ run_id[q] \in RunsWithData
        /\ run_id[p] \notin RunsWithData

\* C23: measurement rows and per-run snapshots are keyed by run id and run ids
\* are never shared, so runs do not collide there: what an invocation stages
\* carries its own run id only, its keys are taken neither by a committed row
\* nor by the open transaction of another invocation, and a committed per-run
\* snapshot is never replaced.
C23_RunKeyedRowsNeverCollide ==
    [][(variant \in WorkVariants) =>
        /\ \A p \in Procs :
            (tx[p].meas # {} \/ tx[p].rsnap # Empty) =>
                /\ \A m \in tx[p].meas : m.run_id = run_id[p]
                /\ DOMAIN tx[p].rsnap \subseteq {run_id[p]}
                /\ \A n \in meas : n.run_id # run_id[p]
                /\ run_id[p] \notin DOMAIN run_snap
                /\ \A q \in Procs \ {p} : run_id[q] # run_id[p]
        /\ (run_snap' # run_snap) =>
                \A r \in DOMAIN run_snap : r \in DOMAIN run_snap' /\ run_snap'[r] = run_snap[r]]_vars

C23_Witness ==
    \E p \in Procs : \E q \in Procs \ {p} :
        /\ variant \in WorkVariants
        /\ tx[p].open /\ tx[q].open
        /\ tx[p].meas # {} /\ tx[q].meas # {}
        /\ tx[p].rsnap # Empty /\ tx[q].rsnap # Empty
        /\ business_date[p] = business_date[q]

\* C24: an invocation that returned an error after its run record was created
\* (the record is committed) returns status "error", the message of the failure
\* and, under "runId", the id of that record.
C24_ErrorResultCarriesRunId ==
    \A p \in Procs :
        (pc[p] = "done" /\ result[p].status = "error"
            /\ run_id[p] # NULL /\ run_id[p] \in DOMAIN runs) =>
            /\ result[p].message = err[p]
            /\ "runId" \in DOMAIN result[p]
            /\ result[p]["runId"] = run_id[p]

\* C25: whatever is delivered as the event, no exception leaves main(): the
\* invocation goes on to return a result.
C25_NoExceptionLeavesMain ==
    \A p \in Procs : pc[p] # "raised"

\* C26: the message of a failure is cut to ErrMax characters both where it is
\* stored by the FAILED finalize and where it is returned to the caller.
C26_ErrorMessageTruncated ==
    /\ \A r \in DOMAIN runs :
            runs[r].status = "FAILED" => Len(runs[r].error_message) <= ErrMax
    /\ \A p \in Procs :
            (pc[p] = "done" /\ result[p].status = "error") =>
                /\ Len(result[p].message) <= ErrMax
                /\ result[p].message = Truncate(err[p])

\* C27: when the handler's own write (the FAILED update or the FAILED header)
\* fails, that failure is swallowed: the invocation returns status "error"
\* with the message of the failure that brought it into the handler.
C27_FinalizeFailureSwallowed ==
    \A p \in Procs :
        (pc[p] = "done" /\ finalized[p] = "lost") =>
            /\ result[p].status = "error"
            /\ result[p].message = err[p]
            /\ (variant \in WorkVariants /\ ~_validate_request(body[p]).ok) =>
                    result[p].message = _validate_request(body[p]).message

\* a validation failure whose FAILED header could not be written, and a count
\* failure whose FAILED update could not be written
C27_Witness ==
    \E p, q \in Procs :
        /\ variant \in {"one", "two"}
        /\ pc[p] = "done" /\ finalized[p] = "lost"
        /\ run_id[p] = NULL
        /\ ~_validate_request(body[p]).ok
        /\ result[p].message = _validate_request(body[p]).message
        /\ result[p].message # DbError
        /\ pc[q] = "done" /\ finalized[q] = "lost"
        /\ run_id[q] # NULL
        /\ result[q].status = "error"

\* the run record invocation p opened is committed
RecordPersisted(p) == run_id[p] # NULL /\ run_id[p] \in DOMAIN runs

\* C28 as stated: every invocation terminates, and once it has returned the
\* run record it opened, if persisted, is SUCCEEDED or FAILED, never RUNNING.
C28_TerminatesWithTerminalRecord ==
    /\ <>(\A p \in Procs : pc[p] = "done")
    /\ [](\A p \in Procs :
            (pc[p] = "done" /\ RecordPersisted(p)) =>
                runs[run_id[p]].status \in {"SUCCEEDED", "FAILED"})

\* C28 amended: every invocation terminates, and once it has returned the run
\* record it opened, if persisted, is SUCCEEDED or FAILED, except that in
\* two.py it is still RUNNING when the invocation failed and the handler's
\* FAILED update was lost.
C28_TerminatesBestEffortTerminal ==
    /\ <>(\A p \in Procs : pc[p] = "done")
    /\ [](\A p \in Procs :
            (pc[p] = "done" /\ RecordPersisted(p)) =>
                \/ runs[run_id[p]].status \in {"SUCCEEDED", "FAILED"}
                \/ /\ runs[run_id[p]].status = "RUNNING"
                   /\ variant = "two"
                   /\ result[p].status = "error"
                   /\ finalized[p] = "lost")

\* C28 witness: two returned invocations of two.py, one record SUCCEEDED, the
\* other left RUNNING by a lost FAILED update
C28_Witness ==
    \E p, q \in Procs :
        /\ variant = "two"
        /\ pc[p] = "done" /\ RecordPersisted(p)
        /\ runs[run_id[p]].status = "SUCCEEDED"
        /\ pc[q] = "done" /\ RecordPersisted(q)
        /\ runs[run_id[q]].status = "RUNNING"
        /\ finalized[q] = "lost"

\* what the open transaction of p has written so far
StagedMeas(p) == tx[p].meas # {}
StagedRunSnap(p) == run_id[p] \in DOMAIN tx[p].rsnap
StagedDaily(p) == business_date[p] \in DOMAIN tx[p].dsnap
StagedSucceeded(p) ==
    run_id[p] \in DOMAIN tx[p].runs /\ tx[p].runs[run_id[p]].status = "SUCCEEDED"

\* C29: within a run of the WORK variants the header comes first, the targets
\* are counted one by one in resolver order, the measurements are written only
\* after the last count, then the per-run snapshot, then the daily snapshot,
\* and the SUCCEEDED update last: SUCCEEDED is never set, staged or committed,
\* before the measurements and both snapshots are written.
C29_StepOrder ==
    (variant \in WorkVariants) =>
        /\ \A p \in Procs :
            /\ targets[p] # <<>> => run_id[p] # NULL
            /\ Len(measurements[p]) <= Len(targets[p])
            /\ \A i \in 1..Len(measurements[p]) :
                    /\ measurements[p][i][1] = run_id[p]
                    /\ measurements[p][i][2] = targets[p][i][1]
                    /\ measurements[p][i][3] = targets[p][i][2]
            /\ tx[p].open =>
                /\ StagedMeas(p) => Len(measurements[p]) = Len(targets[p])
                /\ StagedRunSnap(p) => StagedMeas(p)
                /\ StagedDaily(p) => StagedRunSnap(p)
                /\ StagedSucceeded(p) => StagedDaily(p)
        /\ \A r \in DOMAIN runs :
            runs[r].status = "SUCCEEDED" =>
                /\ \E m \in meas : m.run_id = r
                /\ r \in DOMAIN run_snap

\* C29 witness: a run that counted two tables has staged everything and its
\* SUCCEEDED update, while an earlier run is committed SUCCEEDED
C29_Witness ==
    \E p, q \in Procs :
        /\ variant \in {"Works", "two"}
        /\ tx[p].open /\ StagedSucceeded(p) /\ StagedDaily(p)
        /\ Len(targets[p]) >= 2
        /\ pc[q] = "done" /\ RecordPersisted(q)
        /\ runs[run_id[q]].status = "SUCCEEDED"

\* one.py / simple_db_connection.py: the invocation of p failed after its
\* header was inserted (its targets were resolved, which comes after the header)
FailedAfterHeaderInserted(p) ==
    /\ variant \in {"one", "http"}
    /\ pc[p] = "done"
    /\ result[p].status = "error"
    /\ run_id[p] # NULL
    /\ targets[p] # <<>>

\* C30: in one.py and simple_db_connection.py, when a failure occurs after the
\* run header was inserted, then after the invocation has returned a run
\* record with that run_id exists with status FAILED and the error message.
C30_SingleConnectionFailureMarkedFailed ==
    \A p \in Procs :
        FailedAfterHeaderInserted(p) =>
            /\ run_id[p] \in DOMAIN runs
            /\ runs[run_id[p]].status = "FAILED"
            /\ runs[run_id[p]].error_message = Truncate(err[p])

\* C31: db_conn() calls commit once and never rollback when the body
\* completes; calls rollback and never commit when the body raises, and the
\* body's exception goes on to the caller; close is called exactly once, as
\* the last call, in both cases.
C31_DbConnCommitRollbackClose ==
    /\ Len(calls) <= 2
    /\ \A i \in 1..Len(calls) : calls[i] = "close" => i = 2
    /\ pc[1] = "close" => calls \in {<<"commit">>, <<"rollback">>}
    /\ pc[1] = "returned" => (calls = <<"commit", "close">> /\ err[1] = NoMsg)
    /\ (pc[1] = "raised" /\ run_id[1] # NULL) =>
            (calls = <<"rollback", "close">> /\ err[1] \in BodyErrors /\ runs = Empty)

\* C31 witness: the body raised, and rollback then close were called
C31_Witness ==
    /\ pc[1] = "raised"
    /\ calls = <<"rollback", "close">>
    /\ err[1] = DbError

\* google_iternary/one.py: the invocation of p failed before main() had a
\* snapshot date
FailedWithoutDate(p) ==
    /\ variant = "nms_one"
    /\ pc[p] = "done"
    /\ result[p].status = "error"
    /\ business_date[p] = NULL

\* C32: in google_iternary/one.py, when an invocation fails before a snapshot
\* date could be determined, the handler falls back to today's date and a
\* FAILED row with the error message is recorded for that date.
C32_FallbackDateFailedRow ==
    \A p \in Procs :
        FailedWithoutDate(p) =>
            \E d \in DOMAIN day_snap :
                /\ d <= today
                /\ day_snap[d].status = "FAILED"
                /\ day_snap[d].error_message = Truncate(err[p])

\* C35: a failed invocation never changes the stored data of a day: the step
\* in which a failure handler ends leaves every row that holds the payload of
\* a successful run with its payload and status unchanged.
C35_FailureKeepsSucceededRow ==
    [][\A p \in Procs :
            (pc[p] = "except_commit" /\ pc'[p] = "done") =>
                \A d \in DOMAIN day_snap :
                    day_snap[d].status = "SUCCEEDED" =>
                        /\ day_snap'[d].status = day_snap[d].status
                        /\ day_snap'[d].payload = day_snap[d].payload]_vars

\* C33: whenever main() of a WORK variant has returned status "ok", the run's
\* record is committed with status SUCCEEDED, and so are one measurement row
\* for each of its measurements and its per-run snapshot with its payload.
C33_OkMeansCommitted ==
    \A p \in Procs :
        (variant \in WorkVariants /\ pc[p] = "done" /\ result[p].status = "ok") =>
            /\ run_id[p] \in DOMAIN runs
            /\ runs[run_id[p]].status = "SUCCEEDED"
            /\ _insert_measurements(measurements[p]) \subseteq meas
            /\ run_id[p] \in DOMAIN run_snap
            /\ run_snap[run_id[p]].payload = payload[p]

\* C34: in every committed state of the WORK variants, a daily snapshot row
\* with a non-null run id R refers to a run whose committed status is
\* SUCCEEDED, and the per-run snapshot of R exists with the same payload.
C34_DailyRowBackedBySucceededRun ==
    (variant \in WorkVariants) =>
        \A d \in DOMAIN day_snap :
            day_snap[d].run_id # NULL =>
                /\ day_snap[d].run_id \in DOMAIN runs
                /\ runs[day_snap[d].run_id].status = "SUCCEEDED"
                /\ day_snap[d].run_id \in DOMAIN run_snap
                /\ run_snap[day_snap[d].run_id].payload = day_snap[d].payload

\* C34 witness: two runs with different payloads were committed for the same
\* date and the daily row is that of the later one
C34_Witness ==
    /\ variant = "two"
    /\ Len(done_runs) = 2
    /\ done_runs[1].business_date = done_runs[2].business_date
    /\ done_runs[1].payload # done_runs[2].payload
    /\ day_snap[done_runs[1].business_date].run_id = done_runs[2].run_id
    /\ day_snap[done_runs[1].business_date].payload = done_runs[2].payload
    /\ runs[done_runs[2].run_id].status = "SUCCEEDED"

\* C36: the business date on a run's record is the key of the daily snapshot
\* row the run writes, also when the invocation starts on one calendar day
\* and inserts its header on the next.
C36_RecordDateIsDailyKey ==
    (variant \in WorkVariants) =>
        \A d \in DOMAIN day_snap :
            (day_snap[d].run_id # NULL /\ day_snap[d].run_id \in DOMAIN runs) =>
                runs[day_snap[d].run_id].snapshot_date = d

\* C37: the daily-snapshot write of Works.py and the one of one.py / two.py
\* are equivalent: applied to the same prior row (absent, null run id, smaller,
\* equal or greater run id) with the same run id and payload, they leave the
\* same run id and payload stored, which is what the deployed one stored.
C37_DailyWritesEquivalent ==
    [][(pc'[1] = "applied") =>
        LET D == business_date'[1]
            R == run_id'[1]
            P == payload'[1]
            old == Lookup(day_snap, D)
            w == _write_daily_snapshot_Works(old, R, P, Now(R))
            t == _write_daily_snapshot_two(old, R, P, Now(R))
        IN  /\ w.run_id = t.run_id
            /\ w.payload = t.payload
            /\ day_snap'[D].run_id = w.run_id
            /\ day_snap'[D].payload = w.payload]_vars

\* C37 witness: both outcomes of the guard under Works.py -- the write has
\* replaced the row of one date, and a row of a greater run id is still there
C37_Witness ==
    /\ variant = "Works"
    /\ pc[1] = "applied"
    /\ day_snap[business_date[1]].run_id = run_id[1]
    /\ day_snap[business_date[1]].payload = payload[1]
    /\ run_id[1] > 1
    /\ \E d \in DOMAIN day_snap : day_snap[d].run_id # NULL /\ day_snap[d].run_id > run_id[1]
====
